---------------------------- MODULE Spec2Model ----------------------------
(***************************************************************************)
(* Loan processing dashboard: the risk classifier (getRisk), the loan      *)
(* recommendation (getLoanRecommendation), the transaction normalizers     *)
(* (normalizeTransaction, normalize), the bucket segments                  *)
(* (buildSegmentsFromBreakdowns), the aggregation (aggregateMetrics), the  *)
(* load of SelectedInsightsPage, the rendering of DocumentInsights, the    *)
(* preview cache and the selection of DocumentList of the React front      *)
(* end.  Each part has its own specification; the variables of the other   *)
(* parts stay at their idle values.                                        *)
(*                                                                         *)
(* JavaScript values are modelled as tagged records [t, n, s]: t is the    *)
(* kind of value, n the number (whole dollars for money; hundredths for    *)
(* the debt service coverage ratio), s the string.  NaN is a value of its  *)
(* own, every ordered comparison with it is false, and it is not equal to  *)
(* itself, as in IEEE 754.  Products with 0.1 and 0.2 are compared as      *)
(* exact rationals; for the whole-dollar amounts drawn below the doubles   *)
(* income * 0.1 and income * 0.2 are exact or fall strictly between the    *)
(* same two whole numbers, so every comparison has the source's outcome.   *)
(***************************************************************************)
EXTENDS Integers, Sequences, FiniteSets, TLC

VARIABLES
    insights,        \* the metrics object handed to getRisk / getLoanRecommendation
    risk,            \* what getRisk did with it
    recommendation,  \* what getLoanRecommendation did with it
    txn,             \* the raw transaction record handed to a normalizer
    normalized,      \* what the normalizer did with it
    normalizedBy,    \* which normalizer ran
    breakdowns,      \* the bucket_breakdown list handed to the segment builders
    segments,        \* what buildSegmentsFromBreakdowns did with it
    cardSegments,    \* what the Transaction Categories card did with it
    allInsights,     \* the list of insights handed to aggregateMetrics
    aggregate,       \* what aggregateMetrics did with it
    selectedIds,     \* the selectedIds prop of SelectedInsightsPage
    rows, loading, bucketSegments, chartTitle, detailedInsights, aggregatedMetrics,
                     \* the state of SelectedInsightsPage
    loads,           \* the calls of load() that await a response, oldest first
    unhandled,       \* how many calls of load() ended in a rejection nobody handles
    completed,       \* the call of load() that ended last: its selection, its
                     \* calls of ApiService and the rows it set
    changes,         \* how often the selection changed
    documentInsights, viewLoading, viewError,
                     \* the state insights, loading, error of DocumentInsights
    received,        \* the response of getDocumentInsights as it arrived
    shown,           \* what DocumentInsights rendered last
    renders,         \* how often DocumentInsights rendered
    previewCache,    \* the Map of previews in memory
    localStorage,    \* the items of window.localStorage by key
    now,             \* Date.now(), in hours
    lastGet,         \* the id and the result of the last call of getCachedPreview
    cachedAt,        \* when cachePreview last cached a preview for an id, and which
    documents, hasAutoSelected,
                     \* the state of the mounted DocumentList
    mounted,         \* DocumentList is on the screen
    selectedDocumentIds,
                     \* the selection, state of App
    serverDocuments, \* the documents the server holds
    fetching,        \* the calls of fetchDocuments that await their response, by caller
    uploading,       \* handleFileSelect awaits uploadDocument
    autoSelections,  \* how often the effect selected all documents
    lastEvent        \* the event handled last

riskVars == <<insights, risk, recommendation>>
txnVars == <<txn, normalized, normalizedBy>>
segVars == <<breakdowns, segments, cardSegments>>
\* the variables of the aggregation, of the pages and of the views
aggVars == <<allInsights, aggregate>>
pageVars == <<selectedIds, rows, loading, bucketSegments, chartTitle, detailedInsights,
              aggregatedMetrics, loads, unhandled, completed, changes>>
viewVars == <<documentInsights, viewLoading, viewError, received, shown, renders>>
cacheVars == <<previewCache, localStorage, now, lastGet, cachedAt>>
listVars == <<documents, hasAutoSelected, mounted, selectedDocumentIds, serverDocuments,
              fetching, uploading, autoSelections, lastEvent>>
restVars == <<cacheVars, listVars>>
laterVars == <<segVars, aggVars, pageVars, viewVars, restVars>>
vars == <<riskVars, txnVars, laterVars>>

---------------------------------------------------------------------------
(* JavaScript values and the built-in operations the source applies.       *)

Undefined == [t |-> "undefined", n |-> 0, s |-> ""]
JsNull == [t |-> "null", n |-> 0, s |-> ""]
NaN == [t |-> "NaN", n |-> 0, s |-> ""]
Num(k) == [t |-> "number", n |-> k, s |-> ""]
Str(x) == [t |-> "string", n |-> 0, s |-> x]

\* a ?? b takes b only when a is null or undefined
IsNullish(v) == v.t \in {"undefined", "null"}

\* !v
IsFalsy(v) ==
    \/ v.t \in {"undefined", "null", "NaN"}
    \/ v.t = "number" /\ v.n = 0
    \/ v.t = "string" /\ v.s = ""

\* a ?? b
Coalesce(a, b) == IF IsNullish(a) THEN b ELSE a

\* a || b
OrElse(a, b) == IF IsFalsy(a) THEN b ELSE a

\* parseFloat of a string: the longest numeric prefix, NaN when there is none.
\* Listed are the numeric strings the inputs below carry; "n/a" has no prefix.
ParseFloatString(x) ==
    CASE x = "6000" -> Num(6000)
      [] x = "1200" -> Num(1200)
      [] x = "250" -> Num(250)
      [] x = "-40" -> Num(-40)
      [] x = "75 USD" -> Num(75)
      [] OTHER -> NaN

\* parseFloat(v): a number is returned as it is, a string is parsed, anything
\* else (an object, null, undefined) has no numeric prefix.
ParseFloat(v) ==
    CASE v.t = "number" -> v
      [] v.t = "string" -> ParseFloatString(v.s)
      [] OTHER -> NaN

\* ka * a < kb * b on numbers; false as soon as one side is NaN
LtScaled(a, ka, b, kb) ==
    /\ a.t = "number"
    /\ b.t = "number"
    /\ ka * a.n < kb * b.n

\* a < b
Lt(a, b) == LtScaled(a, 1, b, 1)

\* Math.abs
MathAbs(v) == IF v.t = "number" THEN Num(IF v.n < 0 THEN -v.n ELSE v.n) ELSE NaN

\* unary minus
Negate(v) == IF v.t = "number" THEN Num(-v.n) ELSE NaN

---------------------------------------------------------------------------
(* The risk classifier and the loan recommendation.                        *)

MaxIncomeK == 12
MaxCashK == 7

Idle == [st |-> "idle", label |-> "", color |-> "", reason |-> ""]
Threw == [st |-> "threw", label |-> "", color |-> "", reason |-> ""]
Returned(l, c, r) == [st |-> "returned", label |-> l, color |-> c, reason |-> r]

Incomes ==
    {Num(k * 1000) : k \in 0..MaxIncomeK}
        \cup {Num(4999), Undefined, JsNull, Str("6000"), Str("n/a")}

CashFlows ==
    {Num(k * 500) : k \in (-2)..MaxCashK}
        \cup {Num(-50), Num(499), Num(501), Num(999), Num(1001),
              Undefined, JsNull, Str("1200"), Str("n/a")}

\* dscr_existing, in hundredths
Dscrs == {Undefined, JsNull, Num(100), Num(125), Num(200)}

RedFlags ==
    {Undefined}
        \cup [t : {"object"},
              gambling_crypto_hits : {Undefined, Num(0), Num(1)},
              chargebacks_count : {Undefined, Num(3), Num(4)}]

Liquidities ==
    {Undefined} \cup [t : {"object"}, nsf_count : {Undefined, Num(5), Num(6)}]

MetricsObjects ==
    [t : {"object"},
     monthly_income : Incomes,
     net_cash_flow : CashFlows,
     dscr_existing : Dscrs,
     red_flags : RedFlags,
     liquidity : Liquidities]

IsObject(v) == v.t = "object"

\* the tests of getRisk with cashFlow >= income * 0.2 in place of >
RiskOfInclusiveLow(income, cashFlow) ==
    IF Lt(income, Num(5000)) THEN Returned("HIGH", "error", "Low monthly income")
    ELSE IF Lt(cashFlow, Num(0)) THEN Returned("HIGH", "error", "Negative cash flow")
    ELSE IF LtScaled(cashFlow, 10, income, 1)
         THEN Returned("MODERATE", "warning", "Low cash flow margin")
    ELSE IF cashFlow.t = "number" /\ income.t = "number" /\ 5 * cashFlow.n >= income.n
         THEN Returned("LOW", "success", "Strong cash flow")
    ELSE Returned("MODERATE", "warning", "Adequate cash flow")

\* The tests of getRisk on the parsed income and cash flow, in source order.
RiskOf(income, cashFlow) ==
    IF Lt(income, Num(5000)) THEN Returned("HIGH", "error", "Low monthly income")
    ELSE IF Lt(cashFlow, Num(0)) THEN Returned("HIGH", "error", "Negative cash flow")
    ELSE IF LtScaled(cashFlow, 10, income, 1)
         THEN Returned("MODERATE", "warning", "Low cash flow margin")
    ELSE IF LtScaled(income, 1, cashFlow, 5)
         THEN Returned("LOW", "success", "Strong cash flow")
    ELSE Returned("MODERATE", "warning", "Adequate cash flow")

\* getRisk with the cash flow sign tested before the income floor
GetRiskCashFirst(m) ==
    IF ~IsObject(m) THEN Returned("INSUFFICIENT", "default", "No insights")
    ELSE LET income == ParseFloat(OrElse(m.monthly_income, Num(0)))
             cashFlow == ParseFloat(OrElse(m.net_cash_flow, Num(0)))
         IN  IF Lt(cashFlow, Num(0))
             THEN Returned("HIGH", "error", "Negative cash flow")
             ELSE RiskOf(income, cashFlow)

\* getRisk without its first line: reading a property of null throws
GetRiskNoGuard(m) ==
    IF ~IsObject(m) THEN Threw
    ELSE RiskOf(ParseFloat(OrElse(m.monthly_income, Num(0))),
                ParseFloat(OrElse(m.net_cash_flow, Num(0))))

\* getRisk(insights).  The guard !insights is taken by null and undefined, the
\* only falsy values among the inputs.
GetRisk(m) ==
    IF ~IsObject(m) THEN Returned("INSUFFICIENT", "default", "No insights")
    ELSE LET income == ParseFloat(OrElse(m.monthly_income, Num(0)))
             cashFlow == ParseFloat(OrElse(m.net_cash_flow, Num(0)))
         IN  RiskOf(income, cashFlow)

\* cashFlowMargin > pct, where cashFlowMargin = income > 0 ? cashFlow / income * 100 : 0
MarginAbove(income, cashFlow, pct) ==
    /\ Lt(Num(0), income)
    /\ LtScaled(income, pct, cashFlow, 100)

\* hasRedFlags of getLoanRecommendation
HasRedFlags(m) ==
    LET redFlags == m.red_flags
        liquidityStats == m.liquidity
        gambling == IF IsFalsy(redFlags) THEN Undefined ELSE redFlags.gambling_crypto_hits
        chargebacks == IF IsFalsy(redFlags) THEN Undefined ELSE redFlags.chargebacks_count
        nsf == IF IsFalsy(liquidityStats) THEN Undefined ELSE liquidityStats.nsf_count
    IN  \/ Lt(Num(0), OrElse(gambling, Num(0)))
        \/ Lt(Num(3), OrElse(chargebacks, Num(0)))
        \/ Lt(Num(5), OrElse(nsf, Num(0)))

\* getLoanRecommendation with the income rule ahead of the DSCR rule
GetLoanRecommendationIncomeFirst(m) ==
    IF ~IsObject(m) THEN Returned("INSUFFICIENT_DATA", "warning", "Insufficient data for analysis")
    ELSE LET income == ParseFloat(OrElse(m.monthly_income, Num(0)))
             cashFlow == ParseFloat(OrElse(m.net_cash_flow, Num(0)))
             dscr == m.dscr_existing
         IN  IF HasRedFlags(m) THEN Returned("HIGH_RISK", "error", "Red flags present")
             ELSE IF Lt(cashFlow, Num(0))
                  THEN Returned("HIGH_RISK", "error", "Negative cash flow")
             ELSE IF Lt(income, Num(8000))
                  THEN Returned("MODERATE_RISK", "warning", "Low income")
             ELSE IF dscr # JsNull /\ Lt(dscr, Num(125))
                  THEN Returned("HIGH_RISK", "error", "Low DSCR")
             ELSE IF MarginAbove(income, cashFlow, 25) /\ Lt(Num(10000), income)
                  THEN Returned("LOW_RISK", "success", "Strong cash flow")
             ELSE IF MarginAbove(income, cashFlow, 15)
                  THEN Returned("MODERATE_RISK", "warning", "Adequate cash flow")
             ELSE Returned("MODERATE_RISK", "warning", "Requires review")

\* getLoanRecommendation(metrics): status, severity, and the entry of factors
\* that names the rule taken.  dscr_existing is in hundredths, 1.25 is 125.
GetLoanRecommendation(m) ==
    IF ~IsObject(m) THEN Returned("INSUFFICIENT_DATA", "warning", "Insufficient data for analysis")
    ELSE LET income == ParseFloat(OrElse(m.monthly_income, Num(0)))
             cashFlow == ParseFloat(OrElse(m.net_cash_flow, Num(0)))
             dscr == m.dscr_existing
         IN  IF HasRedFlags(m) THEN Returned("HIGH_RISK", "error", "Red flags present")
             ELSE IF Lt(cashFlow, Num(0))
                  THEN Returned("HIGH_RISK", "error", "Negative cash flow")
             ELSE IF dscr # JsNull /\ Lt(dscr, Num(125))
                  THEN Returned("HIGH_RISK", "error", "Low DSCR")
             ELSE IF Lt(income, Num(8000))
                  THEN Returned("MODERATE_RISK", "warning", "Low income")
             ELSE IF MarginAbove(income, cashFlow, 25) /\ Lt(Num(10000), income)
                  THEN Returned("LOW_RISK", "success", "Strong cash flow")
             ELSE IF MarginAbove(income, cashFlow, 15)
                  THEN Returned("MODERATE_RISK", "warning", "Adequate cash flow")
             ELSE Returned("MODERATE_RISK", "warning", "Requires review")

---------------------------------------------------------------------------
(* The values of the transaction variables while no normalizer runs.       *)

NoTxn == [t |-> "none"]
NotNormalized == [st |-> "idle"]

TxnIdle ==
    /\ txn = NoTxn
    /\ normalized = NotNormalized
    /\ normalizedBy = "none"

\* the values of the segment variables while no segment builder runs
NotBuilt == [st |-> "idle"]

SegIdle ==
    /\ breakdowns = <<>>
    /\ segments = NotBuilt
    /\ cardSegments = NotBuilt

AggIdle ==
    /\ allInsights = <<>>
    /\ aggregate = NotBuilt

\* the state of the page before its first load
NoLoad == [sel |-> <<>>, calls |-> <<>>, escaped |-> FALSE, rows |-> <<>>]

PageIdle ==
    /\ selectedIds = <<>>
    /\ rows = <<>>
    /\ loading = FALSE
    /\ bucketSegments = <<>>
    /\ chartTitle = ""
    /\ detailedInsights = <<>>
    /\ aggregatedMetrics = JsNull
    /\ loads = <<>>
    /\ unhandled = 0
    /\ completed = NoLoad
    /\ changes = 0

\* DocumentInsights before its fetch answers
NotReceived == [t |-> "none"]
NotRendered == [card |-> "none yet"]

ViewIdle ==
    /\ documentInsights = JsNull
    /\ viewLoading = TRUE
    /\ viewError = JsNull
    /\ received = NotReceived
    /\ shown = NotRendered
    /\ renders = 0

\* keys of localStorage: a prefix and the rest of the key
CACHE_KEY_PREFIX == "pdf_preview_"
PreviewIds == {"d1", "d2"}
CacheKey(documentId) == [prefix |-> CACHE_KEY_PREFIX, rest |-> documentId]
FlagKey == [prefix |-> "", rest |-> "hasAutoSelectedDocuments"]
StorageKeys == {CacheKey(id) : id \in PreviewIds} \cup {FlagKey}

\* what getItem returns for a key that has no item
NoItem == [t |-> "null"]
NoPreview == [t |-> "none"]
NoGet == [id |-> "", result |-> JsNull]

\* the cache before the first preview is cached
CacheIdle ==
    /\ previewCache = [id \in PreviewIds |-> NoPreview]
    /\ localStorage = [k \in StorageKeys |-> NoItem]
    /\ now = 0
    /\ lastGet = NoGet
    /\ cachedAt = [id \in PreviewIds |-> <<>>]

\* before DocumentList is mounted for the first time
ListIdle ==
    /\ documents = <<>>
    /\ hasAutoSelected = FALSE
    /\ mounted = FALSE
    /\ selectedDocumentIds = {}
    /\ serverDocuments = <<>>
    /\ fetching = <<>>
    /\ uploading = FALSE
    /\ autoSelections = 0
    /\ lastEvent = "none"

RestIdle == CacheIdle /\ ListIdle

LaterIdle == SegIdle /\ AggIdle /\ PageIdle /\ ViewIdle /\ RestIdle

---------------------------------------------------------------------------
(* The classifier applied to a metrics object received from the backend.   *)

InitRisk ==
    /\ insights \in MetricsObjects \cup {Undefined, JsNull}
    /\ risk = Idle
    /\ recommendation = Idle
    /\ TxnIdle
    /\ LaterIdle

\* getRisk(item.insights), getRisk(data.insights)
CallGetRisk ==
    /\ risk = Idle
    /\ risk' = GetRisk(insights)
    /\ UNCHANGED <<insights, recommendation, txnVars, laterVars>>

\* const recommendation = getLoanRecommendation(metrics)
CallGetLoanRecommendation ==
    /\ recommendation = Idle
    /\ recommendation' = GetLoanRecommendation(insights)
    /\ UNCHANGED <<insights, risk, txnVars, laterVars>>

NextRisk == CallGetRisk \/ CallGetLoanRecommendation

SpecRisk == InitRisk /\ [][NextRisk]_vars

---------------------------------------------------------------------------
(* Properties of the classifier.                                           *)

\* income and cashFlow as the rules read them: the field, 0 when it is missing
MetricOf(v) == IF IsNullish(v) THEN Num(0) ELSE ParseFloat(v)
IncomeOf(m) == MetricOf(m.monthly_income)
CashFlowOf(m) == MetricOf(m.net_cash_flow)
IsNumeric(m) == IncomeOf(m).t = "number" /\ CashFlowOf(m).t = "number"
RiskIs(l, r) == risk.label = l /\ risk.reason = r
GetRiskRan == risk.st # "idle" /\ IsObject(insights)

\* C1: for every metrics object getRisk applies its five rules in priority
\* order: income < 5000 is HIGH 'Low monthly income'; else cashFlow < 0 is HIGH
\* 'Negative cash flow'; else cashFlow < 0.1 * income is MODERATE 'Low cash flow
\* margin'; else cashFlow > 0.2 * income is LOW 'Strong cash flow'; else MODERATE
\* 'Adequate cash flow'.  A low income with a negative cash flow reports the low
\* income, and a cash flow of exactly 10% or 20% of the income is adequate.
C1_PriorityOrder ==
    GetRiskRan =>
        LET income == IncomeOf(insights)
            cashFlow == CashFlowOf(insights)
            low == Lt(income, Num(5000))
            negative == Lt(cashFlow, Num(0))
            thin == LtScaled(cashFlow, 10, income, 1)
            strong == LtScaled(income, 1, cashFlow, 5)
        IN  /\ risk.st = "returned"
            /\ low => RiskIs("HIGH", "Low monthly income")
            /\ ~low /\ negative => RiskIs("HIGH", "Negative cash flow")
            /\ ~low /\ ~negative /\ thin => RiskIs("MODERATE", "Low cash flow margin")
            /\ ~low /\ ~negative /\ ~thin /\ strong => RiskIs("LOW", "Strong cash flow")
            /\ ~low /\ ~negative /\ ~thin /\ ~strong
                   => RiskIs("MODERATE", "Adequate cash flow")
            /\ IsNumeric(insights) /\ income.n >= 5000
                   /\ (10 * cashFlow.n = income.n \/ 5 * cashFlow.n = income.n)
                   => RiskIs("MODERATE", "Adequate cash flow")

\* C1 witness: a low income with a negative cash flow, reported as low income
C1_Witness ==
    /\ GetRiskRan
    /\ IsNumeric(insights)
    /\ IncomeOf(insights).n < 5000
    /\ CashFlowOf(insights).n < 0
    /\ RiskIs("HIGH", "Low monthly income")

\* C2: getRisk of null or undefined returns INSUFFICIENT 'No insights' without
\* throwing, and no metrics object is reported INSUFFICIENT.
C2_InsufficientOnlyForNull ==
    risk.st # "idle" =>
        /\ risk.st = "returned"
        /\ risk.label = "INSUFFICIENT" <=> insights \in {Undefined, JsNull}
        /\ risk.label = "INSUFFICIENT" => risk.reason = "No insights"

\* C2 witness: getRisk(null) has returned INSUFFICIENT
C2_Witness ==
    /\ insights = JsNull
    /\ risk.st = "returned"
    /\ RiskIs("INSUFFICIENT", "No insights")

\* C3: a monthly income below 5000 is high risk in every decision shown:
\* getRisk returns HIGH and getLoanRecommendation returns HIGH_RISK.
C3_LowIncomeIsHighRisk ==
    (IsObject(insights) /\ Lt(IncomeOf(insights), Num(5000))) =>
        /\ risk.st # "idle" => risk.label = "HIGH"
        /\ recommendation.st # "idle" => recommendation.label = "HIGH_RISK"

---------------------------------------------------------------------------
(* The transaction normalizers.                                            *)

MaxAmountK == 1

TransactionAmounts ==
    {Num(k * 40) : k \in (-MaxAmountK)..MaxAmountK}
        \cup {Undefined, JsNull, Str("250"), Str("-40"), Str("n/a")}

RawCategories ==
    {Undefined, JsNull, Str(""), Str("rent"), Num(42)}
        \cup [t : {"object"},
              value : {Undefined, Str("payroll"), Num(7)},
              name : {Undefined, Str("fees")}]

\* the raw transaction records of a backend response
RawTransactions ==
    [t : {"object"},
     transaction_amount : TransactionAmounts,
     amount : {Undefined, Num(-40), Str("n/a")},
     transaction_type : {Undefined, JsNull, Str("debit"), Str("credit"), Str("withdrawal")},
     type : {Undefined, Str("debit"), Str("credit")},
     category : RawCategories,
     transaction_description : {Undefined, Str("Coffee"), Num(123)},
     description : {Undefined, Str("Rent")},
     transaction_id : {Undefined, Str("t1")},
     id : {Undefined, Str("t2")},
     transaction_date : {Undefined, Str("2024-01-05")},
     date : {Undefined, Str("2024-02-01")}]

\* parseFloat(txn.transaction_amount ?? txn.amount ?? 0)
RawAmount(t) == ParseFloat(Coalesce(Coalesce(t.transaction_amount, t.amount), Num(0)))

\* txn.transaction_date ?? txn.date ?? null
RawDate(t) == Coalesce(Coalesce(t.transaction_date, t.date), JsNull)

\* txn.transaction_description ?? txn.description ?? ''
RawDescription(t) == Coalesce(Coalesce(t.transaction_description, t.description), Str(""))

\* rawAmount < 0 ? 'debit' : 'credit'
InferredType(rawAmount) == IF Lt(rawAmount, Num(0)) THEN Str("debit") ELSE Str("credit")

\* let category = txn.category; an object gives its value, else its name, else
\* 'other'; a falsy category gives 'other'
NormalCategory(t) ==
    LET c0 == t.category
        c1 == IF ~IsFalsy(c0) /\ IsObject(c0)
              THEN Coalesce(Coalesce(c0.value, c0.name), Str("other"))
              ELSE c0
    IN  IF IsFalsy(c1) THEN Str("other") ELSE c1

\* type === 'debit' ? -Math.abs(amount) : Math.abs(amount)
SignedAmount(type, amount) ==
    IF type = Str("debit") THEN Negate(MathAbs(amount)) ELSE MathAbs(amount)

\* description.slice(0, 20) exists on a string only
CanSlice(description) == description.t = "string"

TxnThrew == [st |-> "threw"]

\* normalizeTransaction(txn, documentId) of the selected transactions page.  The
\* id is built first in the returned literal: without transaction_id and id it
\* is the template, which calls description.slice.
NormalizeTransaction(t, documentId) ==
    LET rawAmount == RawAmount(t)
        date == RawDate(t)
        description == RawDescription(t)
        type == Coalesce(t.transaction_type, InferredType(rawAmount))
        category == NormalCategory(t)
        amount == MathAbs(rawAmount)
        signedAmount == SignedAmount(type, amount)
        id == Coalesce(Coalesce(t.transaction_id, t.id), Str("generated"))
    IN  IF IsNullish(Coalesce(t.transaction_id, t.id)) /\ ~CanSlice(description)
        THEN TxnThrew
        ELSE [st |-> "returned", id |-> id, documentId |-> documentId, date |-> date,
              description |-> description, amount |-> amount,
              signedAmount |-> signedAmount, type |-> type, category |-> category]

\* normalizeTransaction(txn, documentId) of the combined transactions dialog:
\* the same, with the raw record kept
NormalizeTransactionDialog(t, documentId) ==
    LET rawAmount == RawAmount(t)
        date == RawDate(t)
        description == RawDescription(t)
        type == Coalesce(t.transaction_type, InferredType(rawAmount))
        category == NormalCategory(t)
        amount == MathAbs(rawAmount)
        signedAmount == SignedAmount(type, amount)
        id == Coalesce(Coalesce(t.transaction_id, t.id), Str("generated"))
    IN  IF IsNullish(Coalesce(t.transaction_id, t.id)) /\ ~CanSlice(description)
        THEN TxnThrew
        ELSE [st |-> "returned", id |-> id, documentId |-> documentId, date |-> date,
              description |-> description, amount |-> amount,
              signedAmount |-> signedAmount, type |-> type, category |-> category,
              raw |-> t]

\* normalize(t) of the transaction table: type also read from t.type, the id
\* from transaction_id || id || `${date}-${description}`
Normalize(t) ==
    LET rawAmount == RawAmount(t)
        date == RawDate(t)
        description == RawDescription(t)
        category == NormalCategory(t)
        type == Coalesce(Coalesce(t.transaction_type, t.type), InferredType(rawAmount))
        amount == MathAbs(rawAmount)
        signedAmount == SignedAmount(type, amount)
        id == OrElse(OrElse(t.transaction_id, t.id), Str("date-description"))
    IN  [st |-> "returned", id |-> id, date |-> date, description |-> description,
         category |-> category, amount |-> amount, signedAmount |-> signedAmount,
         type |-> type]

\* the values of the classifier variables while no classifier runs
RiskIdle ==
    /\ insights = Undefined
    /\ risk = Idle
    /\ recommendation = Idle

InitNormalize ==
    /\ txn \in RawTransactions
    /\ normalized = NotNormalized
    /\ normalizedBy = "none"
    /\ RiskIdle
    /\ LaterIdle

\* (res.transactions ?? []).map(t => normalizeTransaction(t, t.document_id))
NormalizeOnPage ==
    /\ normalized = NotNormalized
    /\ normalized' = NormalizeTransaction(txn, Str("doc1"))
    /\ normalizedBy' = "SelectedTransactionsPage"
    /\ UNCHANGED <<txn, riskVars, laterVars>>

\* (res.transactions ?? []).map(t => normalizeTransaction(t, id))
NormalizeInDialog ==
    /\ normalized = NotNormalized
    /\ normalized' = NormalizeTransactionDialog(txn, Str("doc1"))
    /\ normalizedBy' = "CombinedTransactionsDialog"
    /\ UNCHANGED <<txn, riskVars, laterVars>>

\* (transactions || []).map(normalize)
NormalizeInTable ==
    /\ normalized = NotNormalized
    /\ normalized' = Normalize(txn)
    /\ normalizedBy' = "TransactionTable"
    /\ UNCHANGED <<txn, riskVars, laterVars>>

NextNormalize == NormalizeOnPage \/ NormalizeInDialog \/ NormalizeInTable

SpecNormalize == InitNormalize /\ [][NextNormalize]_vars

---------------------------------------------------------------------------
(* Properties of the normalizers.                                          *)

NormalizerReturned == normalized.st = "returned"

\* a and b are the same number; NaN is equal to nothing, itself included
StrictEqNum(a, b) == a.t = "number" /\ b.t = "number" /\ a.n = b.n

\* the raw amount the normalizers read: the first alias present
RawAmountField == Coalesce(txn.transaction_amount, txn.amount)

\* the raw type of the record: the first alias present
RawTypeField == Coalesce(txn.transaction_type, txn.type)

\* C5: for every raw transaction record the normalizer does not raise and
\* returns a transaction whose amount is a number >= 0.
C5_NeverRaisesAmountNonNegative ==
    normalized.st # "idle" =>
        /\ normalized.st = "returned"
        /\ normalized.amount.t = "number"
        /\ normalized.amount.n >= 0

\* C6: when the raw amount is missing, or present but not parseable as a
\* number, the normalized transaction has amount 0 and signedAmount 0.
C6_MissingOrUnparseableIsZero ==
    (NormalizerReturned
        /\ (IsNullish(RawAmountField) \/ ParseFloat(RawAmountField).t # "number")) =>
        /\ StrictEqNum(normalized.amount, Num(0))
        /\ StrictEqNum(normalized.signedAmount, Num(0))

\* C7: every normalized transaction has signedAmount = -amount when its type is
\* debit and signedAmount = +amount when its type is credit, so the sign of
\* signedAmount matches the type and its magnitude is amount.
C7_SignMatchesType ==
    NormalizerReturned =>
        /\ normalized.type = Str("debit") =>
               /\ StrictEqNum(normalized.signedAmount, Negate(normalized.amount))
               /\ normalized.signedAmount.n <= 0
        /\ normalized.type = Str("credit") =>
               /\ StrictEqNum(normalized.signedAmount, normalized.amount)
               /\ normalized.signedAmount.n >= 0

\* C8: the type of every normalized transaction is credit or debit, whatever
\* the raw record carries as its type.
C8_TypeIsCreditOrDebit ==
    NormalizerReturned => normalized.type \in {Str("credit"), Str("debit")}

\* C9: when the raw record carries no type the normalized type is debit if the
\* parsed raw amount is negative and credit otherwise; when it carries a type,
\* that type is used unchanged whatever the sign of the raw amount.
C9_TypeInferredOnlyWhenAbsent ==
    NormalizerReturned =>
        LET parsed == IF IsNullish(RawAmountField) THEN Num(0)
                      ELSE ParseFloat(RawAmountField)
        IN  IF IsNullish(RawTypeField)
            THEN normalized.type =
                     (IF parsed.t = "number" /\ parsed.n < 0 THEN Str("debit")
                      ELSE Str("credit"))
            ELSE normalized.type = RawTypeField

\* C10: the category of every normalized transaction is a non-empty string:
\* 'other' when the raw category is missing, null, empty or malformed (not a
\* string, or an object without a usable value or name), and otherwise the raw
\* string, or the object's value, else its name.
C10_CategoryIsNonEmptyString ==
    NormalizerReturned =>
        LET c == txn.category
            usable(v) == v.t = "string" /\ v.s # ""
            expected ==
                IF usable(c) THEN c
                ELSE IF IsObject(c) /\ usable(c.value) THEN c.value
                ELSE IF IsObject(c) /\ IsNullish(c.value) /\ usable(c.name) THEN c.name
                ELSE Str("other")
        IN  /\ normalized.category.t = "string"
            /\ normalized.category.s # ""
            /\ normalized.category = expected

---------------------------------------------------------------------------
(* Bucket segments: buildSegmentsFromBreakdowns of the insights page and   *)
(* the inline builder of the Transaction Categories card.  A percentage is *)
(* kept as the exact quotient 100 * num / den.                             *)

MaxBreakdowns == 3

BreakdownEntries ==
    {JsNull}
        \cup [t : {"object"},
              bucket : {Undefined, Str("INCOME"), Str("FINANCING"), Str("OTHER")},
              total_amount : {Undefined, Num(-50), Num(0), Num(150), Str("250")}]

RECURSIVE SeqsUpTo(_, _)
\* the sequences over S of length at most n
SeqsUpTo(S, n) ==
    IF n = 0 THEN {<<>>}
    ELSE LET shorter == SeqsUpTo(S, n - 1)
         IN  shorter \cup {Append(q, x) : q \in {r \in shorter : Len(r) = n - 1}, x \in S}

\* a + b on numbers
Add(a, b) == IF a.t = "number" /\ b.t = "number" THEN Num(a.n + b.n) ELSE NaN

\* b?.bucket || 'OTHER'
BucketOf(b) == IF IsNullish(b) THEN Str("OTHER") ELSE OrElse(b.bucket, Str("OTHER"))

\* typeof b?.total_amount === 'string' ? parseFloat(b.total_amount) : (b?.total_amount || 0)
BreakdownAmount(b) ==
    LET raw == IF IsNullish(b) THEN Undefined ELSE b.total_amount
    IN  IF raw.t = "string" THEN ParseFloat(raw) ELSE OrElse(raw, Num(0))

\* the position of bucket in the entries of totalsByBucket, 0 when it has none
KeyIndex(totals, bucket) ==
    IF \E i \in 1..Len(totals) : totals[i].bucket = bucket
    THEN CHOOSE i \in 1..Len(totals) : totals[i].bucket = bucket
    ELSE 0

\* totalsByBucket[bucket] = amount, the amount of the last entry of a bucket
AddToBucketOverwrite(totals, bucket, amount) ==
    LET i == KeyIndex(totals, bucket)
    IN  IF i = 0
        THEN Append(totals, [bucket |-> bucket, amount |-> amount])
        ELSE [totals EXCEPT ![i].amount = amount]

\* totalsByBucket[bucket] = (totalsByBucket[bucket] || 0) + amount; a new key is
\* added after the keys there are
AddToBucket(totals, bucket, amount) ==
    LET i == KeyIndex(totals, bucket)
    IN  IF i = 0
        THEN Append(totals, [bucket |-> bucket, amount |-> Add(Num(0), amount)])
        ELSE [totals EXCEPT ![i].amount = Add(OrElse(totals[i].amount, Num(0)), amount)]

RECURSIVE TotalsByBucket(_)
\* totalsByBucket after the loop over breakdowns, its entries in insertion order
TotalsByBucket(bs) ==
    IF bs = <<>> THEN <<>>
    ELSE LET b == bs[Len(bs)]
         IN  AddToBucket(TotalsByBucket(SubSeq(bs, 1, Len(bs) - 1)),
                         BucketOf(b), BreakdownAmount(b))

RECURSIVE Overall(_)
\* overall after the loop over breakdowns
Overall(bs) ==
    IF bs = <<>> THEN Num(0)
    ELSE Add(Overall(SubSeq(bs, 1, Len(bs) - 1)), BreakdownAmount(bs[Len(bs)]))

\* (amount / overall) * 100
Pct(amount, overall) ==
    IF amount.t # "number" \/ overall.t # "number" THEN [t |-> "NaN", num |-> 0, den |-> 1]
    ELSE IF overall.n # 0 THEN [t |-> "ratio", num |-> 100 * amount.n, den |-> overall.n]
    ELSE IF amount.n > 0 THEN [t |-> "Infinity", num |-> 1, den |-> 0]
    ELSE IF amount.n < 0 THEN [t |-> "-Infinity", num |-> -1, den |-> 0]
    ELSE [t |-> "NaN", num |-> 0, den |-> 1]

\* the comparator (a, b) => b.pct - a.pct is negative: a is sorted before b.
\* Percentages of one list share their denominator.
SortsBefore(a, b) ==
    CASE a.pct.t = "ratio" /\ b.pct.t = "ratio" ->
             IF a.pct.den > 0 THEN b.pct.num < a.pct.num ELSE b.pct.num > a.pct.num
      [] a.pct.t = "Infinity" /\ b.pct.t = "-Infinity" -> TRUE
      [] OTHER -> FALSE

RECURSIVE InsertSorted(_, _)
\* x put into the sorted list before the first entry it sorts before
InsertSorted(x, sorted) ==
    IF sorted = <<>> THEN <<x>>
    ELSE IF SortsBefore(x, Head(sorted)) THEN <<x>> \o sorted
    ELSE <<Head(sorted)>> \o InsertSorted(x, Tail(sorted))

RECURSIVE SortByPct(_)
\* Array.prototype.sort with the comparator above: a stable sort
SortByPct(segs) ==
    IF segs = <<>> THEN <<>>
    ELSE InsertSorted(segs[Len(segs)], SortByPct(SubSeq(segs, 1, Len(segs) - 1)))

\* overall <= 0
NotPositive(overall) == overall.t = "number" /\ overall.n <= 0

\* overall < 0
IsNegative(overall) == overall.t = "number" /\ overall.n < 0

\* Object.entries(totalsByBucket).map(([bucket, amount]) => ({bucket, pct}))
SegmentsOf(totals, overall) ==
    [i \in 1..Len(totals) |->
        [bucket |-> totals[i].bucket, pct |-> Pct(totals[i].amount, overall)]]

\* Object.entries(totalsByBucket).map(([bucket, amount]) => ({bucket, pct, amount}))
CardSegmentsOf(totals, overall) ==
    [i \in 1..Len(totals) |->
        [bucket |-> totals[i].bucket, pct |-> Pct(totals[i].amount, overall),
         amount |-> totals[i].amount]]

\* buildSegmentsFromBreakdowns with the guard overall < 0
BuildSegmentsStrictGuard(bs) ==
    IF IsNegative(Overall(bs)) THEN <<>>
    ELSE SortByPct(SegmentsOf(TotalsByBucket(bs), Overall(bs)))

\* buildSegmentsFromBreakdowns(breakdowns)
BuildSegmentsFromBreakdowns(bs) ==
    IF NotPositive(Overall(bs)) THEN <<>>
    ELSE SortByPct(SegmentsOf(TotalsByBucket(bs), Overall(bs)))

\* the segments of the Transaction Categories card: the same loop with b.bucket
\* and b.total_amount read from b itself, and no test of overall
CardSegments(bs) ==
    IF \E i \in 1..Len(bs) : IsNullish(bs[i]) THEN [st |-> "threw"]
    ELSE [st |-> "returned",
          list |-> SortByPct(CardSegmentsOf(TotalsByBucket(bs), Overall(bs)))]

InitSegments ==
    /\ breakdowns \in SeqsUpTo(BreakdownEntries, MaxBreakdowns)
    /\ segments = NotBuilt
    /\ cardSegments = NotBuilt
    /\ RiskIdle
    /\ TxnIdle
    /\ AggIdle
    /\ PageIdle
    /\ ViewIdle
    /\ RestIdle

\* const segments = buildSegmentsFromBreakdowns(data?.insights?.bucket_breakdown || [])
CallBuildSegments ==
    /\ segments = NotBuilt
    /\ segments' = [st |-> "returned", list |-> BuildSegmentsFromBreakdowns(breakdowns)]
    /\ UNCHANGED <<breakdowns, cardSegments, riskVars, txnVars, aggVars, pageVars, viewVars, restVars>>

\* the card rendered: nothing is built for an empty bucket_breakdown
RenderCategoriesCard ==
    /\ cardSegments = NotBuilt
    /\ breakdowns # <<>>
    /\ cardSegments' = CardSegments(breakdowns)
    /\ UNCHANGED <<breakdowns, segments, riskVars, txnVars, aggVars, pageVars, viewVars, restVars>>

NextSegments == CallBuildSegments \/ RenderCategoriesCard

SpecSegments == InitSegments /\ [][NextSegments]_vars

---------------------------------------------------------------------------
(* Properties of the bucket segments.                                      *)

\* the bucket name an entry counts under
NameOf(b) ==
    IF IsNullish(b) THEN "OTHER"
    ELSE IF b.bucket.t = "string" /\ b.bucket.s # "" THEN b.bucket.s
    ELSE "OTHER"

\* the amount an entry carries, a missing amount being 0
ValueOf(b) ==
    IF IsNullish(b) THEN 0
    ELSE IF b.total_amount.t = "number" THEN b.total_amount.n
    ELSE IF b.total_amount.t = "string" THEN ParseFloatString(b.total_amount.s).n
    ELSE 0

AbsInt(k) == IF k < 0 THEN -k ELSE k

RECURSIVE SumOfBuckets(_, _, _)
\* the sum of the amounts (of their magnitudes when abs) of the entries of bs
\* whose bucket name is in names
SumOfBuckets(bs, names, abs) ==
    IF bs = <<>> THEN 0
    ELSE LET b == Head(bs)
             v == IF NameOf(b) \in names
                  THEN (IF abs THEN AbsInt(ValueOf(b)) ELSE ValueOf(b))
                  ELSE 0
         IN  v + SumOfBuckets(Tail(bs), names, abs)

BucketNames(bs) == {NameOf(bs[i]) : i \in 1..Len(bs)}

RECURSIVE SumOfNumerators(_)
SumOfNumerators(segs) ==
    IF segs = <<>> THEN 0 ELSE Head(segs).pct.num + SumOfNumerators(Tail(segs))

SegmentsBuilt == segments # NotBuilt

\* C11: buildSegmentsFromBreakdowns returns the empty list for an empty input
\* and for amounts that sum to 0 or less; otherwise it returns a non-empty list
\* with exactly one segment for each distinct bucket name, an entry without a
\* bucket name counting as OTHER.
C11_EmptyOrOnePerBucket ==
    SegmentsBuilt =>
        IF breakdowns = <<>> \/ SumOfBuckets(breakdowns, BucketNames(breakdowns), FALSE) <= 0
        THEN segments.list = <<>>
        ELSE /\ segments.list # <<>>
             /\ Len(segments.list) = Cardinality(BucketNames(breakdowns))
             /\ {segments.list[i].bucket : i \in 1..Len(segments.list)}
                    = {Str(x) : x \in BucketNames(breakdowns)}

C11_Witness ==
    /\ SegmentsBuilt
    /\ Len(breakdowns) = 3
    /\ Len(segments.list) = 2
    /\ \E i \in 1..3 : breakdowns[i] # JsNull /\ breakdowns[i].bucket = Undefined
    /\ \E i \in 1..2 : segments.list[i].bucket = Str("OTHER")

C13_TotalsAreAbsoluteSums ==
    (SegmentsBuilt /\ segments.list # <<>>) =>
        LET totals == TotalsByBucket(breakdowns)
            list == segments.list
        IN  /\ \A i \in 1..Len(totals) :
                   totals[i].amount = Num(SumOfBuckets(breakdowns, {totals[i].bucket.s}, TRUE))
            /\ \A i \in 1..Len(list) :
                   /\ list[i].pct.t = "ratio"
                   /\ list[i].pct.den > 0
                   /\ 0 <= list[i].pct.num
                   /\ list[i].pct.num <= 100 * list[i].pct.den

---------------------------------------------------------------------------
(* aggregateMetrics of the insights page.  An array is a value             *)
(* [t |-> "array", items |-> a sequence]; a quotient is kept exact, as its *)
(* numerator and denominator.                                              *)

MaxDocs == 2

Arr(items) == [t |-> "array", items |-> items]

RentBill == [merchant |-> "RENT", avg_amount |-> Num(1500)]
GymBill == [merchant |-> "GYM", avg_amount |-> Num(40)]
LoanBill == [merchant |-> "LOAN", avg_amount |-> Str("250")]

\* an insights object with the given parts and nothing else
Insight(income, expenses, net, debt, count, liquidity, bills, signals, flags) ==
    [t |-> "object", monthly_income |-> income, monthly_expenses |-> expenses,
     net_cash_flow |-> net, existing_debt_service |-> debt,
     transaction_count |-> count, liquidity |-> liquidity,
     recurring_bills |-> bills, loan_signals |-> signals, red_flags |-> flags]

LiquidityObjects ==
    [t : {"object"}, avg_daily_balance : {Undefined, Num(100), Str("250")},
     nsf_count : {Undefined, Num(2)}, nsf_fees : {Num(35)}, days_negative : {Str("6000")}]

RedFlagObjects ==
    [t : {"object"}, chargebacks_count : {Undefined, Num(1)},
     gambling_crypto_hits : {Num(2)}, large_cash_withdrawals : {Str("250")},
     round_number_cash_deposits : {Undefined}]

\* the insights of one document, as the backend sends them, and a null entry
InsightObjects ==
    {JsNull}
        \cup {Insight(i, Undefined, n, d, Undefined, Undefined, Undefined, Undefined, Undefined) :
                 i \in {Undefined, Num(0), Num(600), Str("1200")},
                 n \in {Undefined, Num(-50), Num(150)},
                 d \in {Undefined, Num(40)}}
        \cup {Insight(Num(600), Num(450), Num(150), Undefined, Num(12), l,
                      Undefined, Undefined, Undefined) :
                 l \in {JsNull} \cup LiquidityObjects}
        \cup {Insight(Num(600), Str("1200"), Num(-50), Str("250"), Str("75 USD"), Undefined, b, g, f) :
                 b \in {Undefined, Arr(<<>>), Arr(<<RentBill, GymBill>>), Arr(<<LoanBill, GymBill>>)},
                 g \in {Undefined, Arr(<<"NEW_LOAN">>)},
                 f \in {Undefined} \cup RedFlagObjects}

\* parseInt(v) of a whole number or of a string that starts with one
ParseInt(v) == ParseFloat(v)

\* totals before the loop
EmptyTotals ==
    [monthly_income |-> Num(0), monthly_expenses |-> Num(0), net_cash_flow |-> Num(0),
     existing_debt_service |-> Num(0), transaction_count |-> Num(0),
     avg_daily_balance |-> Num(0), nsf_count |-> Num(0), nsf_fees |-> Num(0),
     days_negative |-> Num(0), recurring_bills |-> <<>>, loan_signals |-> <<>>,
     red_flags |-> [chargebacks_count |-> Num(0), gambling_crypto_hits |-> Num(0),
                    large_cash_withdrawals |-> Num(0), round_number_cash_deposits |-> Num(0)]]

\* totals and validCount before the loop
LoopStart == [totals |-> EmptyTotals, validCount |-> 0]

\* total += parseFloat(field || 0), and the same with parseInt
PlusFloat(total, field) == Add(total, ParseFloat(OrElse(field, Num(0))))
PlusInt(total, field) == Add(total, ParseInt(OrElse(field, Num(0))))

\* list.push(...array) with every element of array already in list left out
PushDistinct(list, array) ==
    list \o SelectSeq(array.items, LAMBDA x : \A i \in 1..Len(list) : list[i] # x)

\* list.push(...array)
PushAll(list, array) == list \o array.items

\* the body of the forEach for one insight
AddInsight(tot, insight) ==
    IF IsFalsy(insight) THEN tot
    ELSE LET liq == insight.liquidity
             flags == insight.red_flags
             t1 == [tot EXCEPT
                      !.validCount = @ + 1,
                      !.totals.monthly_income = PlusFloat(@, insight.monthly_income),
                      !.totals.monthly_expenses = PlusFloat(@, insight.monthly_expenses),
                      !.totals.net_cash_flow = PlusFloat(@, insight.net_cash_flow),
                      !.totals.existing_debt_service = PlusFloat(@, insight.existing_debt_service),
                      !.totals.transaction_count = PlusInt(@, insight.transaction_count)]
             t2 == IF IsFalsy(liq) THEN t1
                   ELSE [t1 EXCEPT
                           !.totals.avg_daily_balance = PlusFloat(@, liq.avg_daily_balance),
                           !.totals.nsf_count = PlusInt(@, liq.nsf_count),
                           !.totals.nsf_fees = PlusFloat(@, liq.nsf_fees),
                           !.totals.days_negative = PlusInt(@, liq.days_negative)]
             t3 == IF IsFalsy(insight.recurring_bills) THEN t2
                   ELSE [t2 EXCEPT !.totals.recurring_bills = PushAll(@, insight.recurring_bills)]
             t4 == IF IsFalsy(insight.loan_signals) THEN t3
                   ELSE [t3 EXCEPT !.totals.loan_signals = PushAll(@, insight.loan_signals)]
         IN  IF IsFalsy(flags) THEN t4
             ELSE [t4 EXCEPT
                     !.totals.red_flags.chargebacks_count = PlusInt(@, flags.chargebacks_count),
                     !.totals.red_flags.gambling_crypto_hits = PlusInt(@, flags.gambling_crypto_hits),
                     !.totals.red_flags.large_cash_withdrawals = PlusInt(@, flags.large_cash_withdrawals),
                     !.totals.red_flags.round_number_cash_deposits =
                         PlusInt(@, flags.round_number_cash_deposits)]

RECURSIVE TotalsAfterLoop(_)
\* totals and validCount after allInsights.forEach
TotalsAfterLoop(list) ==
    IF list = <<>> THEN LoopStart
    ELSE AddInsight(TotalsAfterLoop(SubSeq(list, 1, Len(list) - 1)), list[Len(list)])

\* a / b
Quotient(a, b) ==
    IF a.t # "number" \/ b.t # "number" THEN [t |-> "NaN", num |-> 0, den |-> 1]
    ELSE IF b.n # 0 THEN [t |-> "ratio", num |-> a.n, den |-> b.n]
    ELSE IF a.n > 0 THEN [t |-> "Infinity", num |-> 1, den |-> 0]
    ELSE IF a.n < 0 THEN [t |-> "-Infinity", num |-> -1, den |-> 0]
    ELSE [t |-> "NaN", num |-> 0, den |-> 1]

\* v > 0
IsPositive(v) == v.t = "number" /\ v.n > 0

\* totals.avg_daily_balance after the loop: divided by validCount when positive
AverageBalance(loop) ==
    IF loop.validCount > 0
    THEN Quotient(loop.totals.avg_daily_balance, Num(loop.validCount))
    ELSE loop.totals.avg_daily_balance

\* the margin taken over the summed expenses
CashFlowMarginOverExpenses(totals) ==
    IF IsPositive(totals.monthly_income)
    THEN Pct(totals.net_cash_flow, totals.monthly_expenses)
    ELSE Num(0)

\* totals.monthly_income > 0 ? (totals.net_cash_flow / totals.monthly_income) * 100 : 0
CashFlowMargin(totals) ==
    IF IsPositive(totals.monthly_income)
    THEN Pct(totals.net_cash_flow, totals.monthly_income)
    ELSE Num(0)

\* totals.existing_debt_service > 0 ? totals.net_cash_flow / totals.existing_debt_service : null
DscrExisting(totals) ==
    IF IsPositive(totals.existing_debt_service)
    THEN Quotient(totals.net_cash_flow, totals.existing_debt_service)
    ELSE JsNull

\* the totals object returned: the sums, the average and the two derived ratios
FinishTotals(loop) ==
    [loop.totals EXCEPT !.avg_daily_balance = AverageBalance(loop)]
        @@ [t |-> "object",
            cash_flow_margin |-> CashFlowMargin(loop.totals),
            dscr_existing |-> DscrExisting(loop.totals)]

\* aggregateMetrics without the test of allInsights.length
AggregateMetricsNoLengthTest(list) == FinishTotals(TotalsAfterLoop(list))

\* aggregateMetrics(allInsights)
AggregateMetrics(list) ==
    IF Len(list) = 0 THEN JsNull ELSE FinishTotals(TotalsAfterLoop(list))

InitAggregate ==
    /\ allInsights \in SeqsUpTo(InsightObjects, MaxDocs)
    /\ aggregate = NotBuilt
    /\ RiskIdle
    /\ TxnIdle
    /\ SegIdle
    /\ PageIdle
    /\ ViewIdle
    /\ RestIdle

\* const aggregated = aggregateMetrics(detailedData.map(d => d.insights))
CallAggregateMetrics ==
    /\ aggregate = NotBuilt
    /\ aggregate' = [st |-> "returned", value |-> AggregateMetrics(allInsights)]
    /\ UNCHANGED <<allInsights, riskVars, txnVars, segVars, pageVars, viewVars, restVars>>

NextAggregate == CallAggregateMetrics

SpecAggregate == InitAggregate /\ [][NextAggregate]_vars

---------------------------------------------------------------------------
(* Properties of aggregateMetrics.                                         *)

\* the number a field stands for, a missing field being 0
FieldValue(v) ==
    IF v.t = "number" THEN v.n
    ELSE IF v.t = "string" THEN ParseFloatString(v.s).n
    ELSE 0

\* the number a field of an optional part stands for
PartValue(part, F(_)) == IF part.t = "object" THEN FieldValue(F(part)) ELSE 0

\* the elements of a list-valued field, none when the field is missing
ItemsOf(v) == IF v.t = "array" THEN v.items ELSE <<>>

RECURSIVE SumSeq(_)
SumSeq(q) == IF q = <<>> THEN 0 ELSE Head(q) + SumSeq(Tail(q))

RECURSIVE Flatten(_)
Flatten(q) == IF q = <<>> THEN <<>> ELSE Head(q) \o Flatten(Tail(q))

\* the insights of allInsights that are not null, in input order
NonNullInsights == SelectSeq(allInsights, LAMBDA d : ~IsNullish(d))

\* the sum of F over the non-null insights
SumOver(F(_)) == SumSeq([i \in 1..Len(NonNullInsights) |-> F(NonNullInsights[i])])

\* the concatenation of F over the non-null insights
ConcatOver(F(_)) == Flatten([i \in 1..Len(NonNullInsights) |-> F(NonNullInsights[i])])

AggregateReturned == aggregate # NotBuilt

TotalsReturned == AggregateReturned /\ aggregate.value # JsNull

\* a finite number: no NaN and no division by zero
IsFinite(v) == v.t = "number" \/ (v.t = "ratio" /\ v.den # 0)

\* C14: aggregateMetrics([]) is null; for a non-empty list, entries all null
\* included, it returns a totals object whose sums, average and ratios are
\* finite numbers (dscr_existing may be null): nothing is divided by zero.
C14_NullForEmptyElseTotals ==
    AggregateReturned =>
        IF allInsights = <<>> THEN aggregate.value = JsNull
        ELSE LET v == aggregate.value
             IN  /\ v.t = "object"
                 /\ \A f \in {v.monthly_income, v.monthly_expenses, v.net_cash_flow,
                              v.existing_debt_service, v.transaction_count,
                              v.avg_daily_balance, v.nsf_count, v.nsf_fees,
                              v.days_negative, v.cash_flow_margin} : IsFinite(f)
                 /\ v.dscr_existing = JsNull \/ IsFinite(v.dscr_existing)

C14_Witness ==
    /\ allInsights = <<JsNull, JsNull>>
    /\ TotalsReturned
    /\ aggregate.value.avg_daily_balance = Num(0)
    /\ aggregate.value.cash_flow_margin = Num(0)

\* C15: every numeric total is the sum of its field over the non-null insights,
\* a missing field counting as 0, and recurring_bills and loan_signals are the
\* inputs' lists concatenated in input order, nothing dropped.
C15_TotalsAreSums ==
    TotalsReturned =>
        LET v == aggregate.value
        IN  /\ v.monthly_income = Num(SumOver(LAMBDA d : FieldValue(d.monthly_income)))
            /\ v.monthly_expenses = Num(SumOver(LAMBDA d : FieldValue(d.monthly_expenses)))
            /\ v.net_cash_flow = Num(SumOver(LAMBDA d : FieldValue(d.net_cash_flow)))
            /\ v.existing_debt_service
                   = Num(SumOver(LAMBDA d : FieldValue(d.existing_debt_service)))
            /\ v.nsf_count
                   = Num(SumOver(LAMBDA d : PartValue(d.liquidity, LAMBDA l : l.nsf_count)))
            /\ v.nsf_fees
                   = Num(SumOver(LAMBDA d : PartValue(d.liquidity, LAMBDA l : l.nsf_fees)))
            /\ v.days_negative
                   = Num(SumOver(LAMBDA d : PartValue(d.liquidity, LAMBDA l : l.days_negative)))
            /\ v.red_flags.chargebacks_count
                   = Num(SumOver(LAMBDA d : PartValue(d.red_flags, LAMBDA r : r.chargebacks_count)))
            /\ v.red_flags.gambling_crypto_hits
                   = Num(SumOver(LAMBDA d : PartValue(d.red_flags, LAMBDA r : r.gambling_crypto_hits)))
            /\ v.red_flags.large_cash_withdrawals
                   = Num(SumOver(LAMBDA d : PartValue(d.red_flags, LAMBDA r : r.large_cash_withdrawals)))
            /\ v.red_flags.round_number_cash_deposits
                   = Num(SumOver(LAMBDA d : PartValue(d.red_flags, LAMBDA r : r.round_number_cash_deposits)))
            /\ v.recurring_bills = ConcatOver(LAMBDA d : ItemsOf(d.recurring_bills))
            /\ v.loan_signals = ConcatOver(LAMBDA d : ItemsOf(d.loan_signals))

C15_Witness ==
    /\ TotalsReturned
    /\ Len(allInsights) = 2
    /\ aggregate.value.recurring_bills = <<RentBill, GymBill, LoanBill, GymBill>>
    /\ aggregate.value.loan_signals = <<"NEW_LOAN", "NEW_LOAN">>
    /\ aggregate.value.monthly_expenses = Num(2400)
    /\ aggregate.value.red_flags.chargebacks_count = Num(1)

\* the insights that carry liquidity.avg_daily_balance
WithBalance ==
    SelectSeq(NonNullInsights,
              LAMBDA d : d.liquidity.t = "object" /\ ~IsNullish(d.liquidity.avg_daily_balance))

\* C16: avg_daily_balance is the sum of avg_daily_balance divided by the number
\* of documents that carry the field.
C16_AverageOverDocumentsWithField ==
    (TotalsReturned /\ Len(WithBalance) > 0) =>
        LET avg == aggregate.value.avg_daily_balance
            sum == SumOver(LAMBDA d : PartValue(d.liquidity, LAMBDA l : l.avg_daily_balance))
        IN  /\ avg.t = "ratio"
            /\ avg.num * Len(WithBalance) = sum * avg.den

\* C17: cash_flow_margin is summed net cash flow / summed income * 100 when the
\* summed income is positive and 0 otherwise; dscr_existing is summed net cash
\* flow / summed existing debt service when that is positive and null otherwise.
C17_RatiosFromSummedTotals ==
    TotalsReturned =>
        LET v == aggregate.value
            income == SumOver(LAMBDA d : FieldValue(d.monthly_income))
            net == SumOver(LAMBDA d : FieldValue(d.net_cash_flow))
            debt == SumOver(LAMBDA d : FieldValue(d.existing_debt_service))
        IN  /\ IF income > 0
               THEN /\ v.cash_flow_margin.t = "ratio"
                    /\ v.cash_flow_margin.num * income = 100 * net * v.cash_flow_margin.den
               ELSE v.cash_flow_margin = Num(0)
            /\ IF debt > 0
               THEN /\ v.dscr_existing.t = "ratio"
                    /\ v.dscr_existing.num * debt = net * v.dscr_existing.den
               ELSE v.dscr_existing = JsNull

\* two documents whose own margins (-50/600 and 150/1200) do not average to
\* the margin of their sums, one of them with debt service
C17_Witness ==
    /\ TotalsReturned
    /\ aggregate.value.monthly_income = Num(1800)
    /\ aggregate.value.net_cash_flow = Num(100)
    /\ aggregate.value.cash_flow_margin = [t |-> "ratio", num |-> 10000, den |-> 1800]
    /\ aggregate.value.dscr_existing = [t |-> "ratio", num |-> 100, den |-> 40]

---------------------------------------------------------------------------
(* The load effect of SelectedInsightsPage.  ApiService answers outside    *)
(* the page: a call in flight resolves with a response or rejects with an  *)
(* error, at any later time.                                               *)

MaxSelections == 2

DocIds == {"d1", "d2"}

\* the values of the selectedIds prop
Selections == {<<>>, <<"d1">>, <<"d2">>, <<"d1", "d2">>}

\* the bucket_breakdown entries of the backend
IncomeBreakdown ==
    [t |-> "object", bucket |-> Str("INCOME"), total_amount |-> Num(150),
     pct_of_total |-> Num(60), percentage |-> Undefined]
FinancingBreakdown ==
    [t |-> "object", bucket |-> Str("FINANCING"), total_amount |-> Str("250"),
     pct_of_total |-> Undefined, percentage |-> Num(40)]

\* the insights the backend holds for a document
InsightsOfDoc(id) ==
    IF id = "d1"
    THEN Insight(Num(6000), Num(4500), Num(1500), Num(400), Num(12),
                 [t |-> "object", avg_daily_balance |-> Num(100), nsf_count |-> Num(2),
                  nsf_fees |-> Num(35), days_negative |-> Undefined],
                 Arr(<<GymBill, RentBill>>), Arr(<<"NEW_LOAN">>), Undefined)
             @@ [bucket_breakdown |-> Arr(<<IncomeBreakdown, FinancingBreakdown>>)]
    ELSE Insight(Str("1200"), Undefined, Num(-50), Undefined, Undefined,
                 Undefined, Undefined, Undefined, Undefined)
             @@ [bucket_breakdown |-> Undefined]

\* the rest of a response about a document
MetadataOfDoc(id) ==
    IF id = "d1" THEN [t |-> "object", statement_name |-> Str("january.pdf")] ELSE Undefined
CountOfDoc(id) == IF id = "d1" THEN Num(12) ELSE Undefined

\* what getDocumentInsights(id) resolves with: insights are there or are null
InsightsResponses(id) ==
    {[t |-> "object", insights |-> i, document_metadata |-> MetadataOfDoc(id),
      transaction_count |-> CountOfDoc(id)] : i \in {InsightsOfDoc(id), JsNull}}

\* one item of bulk.results
BulkItems(id) ==
    {[t |-> "object", document_id |-> id, success |-> TRUE, insights |-> InsightsOfDoc(id),
      document_metadata |-> MetadataOfDoc(id), transaction_count |-> CountOfDoc(id),
      error |-> Undefined],
     [t |-> "object", document_id |-> id, success |-> FALSE, insights |-> JsNull,
      document_metadata |-> Undefined, transaction_count |-> Undefined,
      error |-> Str("Document not processed")]}

\* what getInsightsBulk(ids) resolves with: an item for each id, in order
BulkResponses(ids) ==
    {r \in SeqsUpTo(UNION {BulkItems(id) : id \in DocIds}, Len(ids)) :
        /\ Len(r) = Len(ids)
        /\ \A k \in 1..Len(ids) : r[k].document_id = ids[k]}

\* a raw transaction with an amount and a type and nothing else
Txn(amount, type) ==
    [t |-> "object", transaction_amount |-> amount, amount |-> Undefined,
     transaction_type |-> type, type |-> Undefined, category |-> Undefined,
     transaction_description |-> Undefined, description |-> Undefined,
     transaction_id |-> Undefined, id |-> Undefined,
     transaction_date |-> Undefined, date |-> Undefined]

\* what getDocumentTransactions(id) resolves with
TransactionsResponses ==
    {[t |-> "object", transactions |-> x] :
        x \in {Undefined,
               Arr(<<>>),
               Arr(<<Txn(Num(6000), Str("credit")), Txn(Num(-40), Undefined),
                     Txn(Str("1200"), Str("debit"))>>),
               Arr(<<Txn(Str("6000"), Undefined), Txn(Num(-40), Str("credit")),
                     Txn(Str("250"), JsNull)>>)}}

\* the errors a call rejects with
ApiErrors == {[message |-> Str("Failed to fetch insights")], [message |-> Str("")]}

\* toCurrency(v): the number v stands for, formatted as US dollars
ToCurrency(v) ==
    [t |-> "currency",
     amount |-> IF v.t = "string" THEN ParseFloat(v) ELSE OrElse(v, Num(0))]

\* BUCKET_DISPLAY_NAMES[name] || name
GetBucketDisplayName(name) ==
    CASE name = Str("FINANCING") -> Str("Financing & Debt")
      [] name = Str("INCOME") -> Str("Income & Revenue")
      [] name = Str("OTHER") -> Str("Other Transactions")
      [] OTHER -> name

\* bucket_breakdown.slice(0, 3).map(b => `${name}: ${pct.toFixed(1)}%`), the
\* text of a bucket kept as its name and its percentage
TopBuckets(ins) ==
    IF IsFalsy(ins) \/ ins.bucket_breakdown.t # "array" THEN <<>>
    ELSE LET bs == ins.bucket_breakdown.items
         IN  [k \in 1..(IF Len(bs) < 3 THEN Len(bs) ELSE 3) |->
                 [name |-> GetBucketDisplayName(bs[k].bucket),
                  pct |-> Coalesce(Coalesce(bs[k].pct_of_total, bs[k].percentage), Num(0))]]

\* insights?.field
FieldOf(ins, field) == IF IsNullish(ins) THEN Undefined ELSE ins[field]

\* x?.statement_name || ''
StatementName(metadata) ==
    IF IsNullish(metadata) THEN Str("") ELSE OrElse(metadata.statement_name, Str(""))

\* the row of a document whose insights were received
InsightsRow(id, item) ==
    LET r == GetRisk(item.insights)
    IN  [documentId |-> id,
         statementName |-> StatementName(item.document_metadata),
         transactionCount |-> OrElse(item.transaction_count, Num(0)),
         income |-> ToCurrency(FieldOf(item.insights, "monthly_income")),
         expenses |-> ToCurrency(FieldOf(item.insights, "monthly_expenses")),
         netCashFlow |-> ToCurrency(FieldOf(item.insights, "net_cash_flow")),
         risk |-> r.label, riskColor |-> r.color,
         buckets |-> TopBuckets(item.insights), reason |-> Str(r.reason)]

\* the row of a bulk item without success or without insights
InsufficientRow(item) ==
    [documentId |-> item.document_id,
     statementName |-> StatementName(item.document_metadata),
     transactionCount |-> OrElse(item.transaction_count, Num(0)),
     income |-> ToCurrency(Num(0)), expenses |-> ToCurrency(Num(0)),
     netCashFlow |-> ToCurrency(Num(0)),
     risk |-> "INSUFFICIENT", riskColor |-> "default", buckets |-> <<>>,
     reason |-> OrElse(item.error, Str("No insights"))]

\* !item.success || !item.insights
NoInsights(item) == ~item.success \/ IsFalsy(item.insights)

\* the row of one item of bulk.results
BulkRow(item) ==
    IF NoInsights(item) THEN InsufficientRow(item) ELSE InsightsRow(item.document_id, item)

\* a - b
Minus(a, b) == Add(a, Negate(b))

\* t.transaction_type ?? (rawAmount < 0 ? 'debit' : 'credit')
FallbackType(t) == Coalesce(t.transaction_type, InferredType(RawAmount(t)))

RECURSIVE FallbackSumsSigned(_)
\* the loop of the fallback with the amount added as it is
FallbackSumsSigned(txs) ==
    IF txs = <<>> THEN [credits |-> Num(0), debits |-> Num(0)]
    ELSE LET t == txs[Len(txs)]
             sums == FallbackSumsSigned(SubSeq(txs, 1, Len(txs) - 1))
         IN  IF FallbackType(t) = Str("credit")
             THEN [sums EXCEPT !.credits = Add(@, RawAmount(t))]
             ELSE [sums EXCEPT !.debits = Add(@, RawAmount(t))]

RECURSIVE FallbackSums(_)
\* credits and debits after the loop over tx.transactions
FallbackSums(txs) ==
    IF txs = <<>> THEN [credits |-> Num(0), debits |-> Num(0)]
    ELSE LET t == txs[Len(txs)]
             mag == MathAbs(RawAmount(t))
             sums == FallbackSums(SubSeq(txs, 1, Len(txs) - 1))
         IN  IF FallbackType(t) = Str("credit")
             THEN [sums EXCEPT !.credits = Add(@, mag)]
             ELSE [sums EXCEPT !.debits = Add(@, mag)]

\* tx.transactions || []
TransactionsOf(tx) == IF IsFalsy(tx.transactions) THEN <<>> ELSE tx.transactions.items

\* the row derived from the transactions of a document
FallbackRow(id, tx) ==
    LET sums == FallbackSums(TransactionsOf(tx))
        net == Minus(sums.credits, sums.debits)
        fallback == [t |-> "object", monthly_income |-> sums.credits,
                     monthly_expenses |-> sums.debits, net_cash_flow |-> net]
        r == GetRisk(fallback)
    IN  [documentId |-> id, statementName |-> Str(""),
         transactionCount |-> Num(Len(TransactionsOf(tx))),
         income |-> ToCurrency(sums.credits), expenses |-> ToCurrency(sums.debits),
         netCashFlow |-> ToCurrency(net),
         risk |-> r.label, riskColor |-> r.color, buckets |-> <<>>,
         reason |-> Str("Derived from transactions (insights unavailable)")]

\* the row shown when the transactions could not be fetched either; e is the
\* error of getDocumentInsights
ErrorRow(id, e) ==
    [documentId |-> id, statementName |-> Str(""), transactionCount |-> Num(0),
     income |-> ToCurrency(Num(0)), expenses |-> ToCurrency(Num(0)),
     netCashFlow |-> ToCurrency(Num(0)),
     risk |-> "ERROR", riskColor |-> "default", buckets |-> <<>>,
     reason |-> OrElse(e.message, Str("Failed to fetch insights"))]

\* insights?.bucket_breakdown || []
BreakdownsOf(ins) ==
    IF IsNullish(ins) \/ IsFalsy(ins.bucket_breakdown) THEN <<>>
    ELSE ins.bucket_breakdown.items

\* bulk.results.filter(r => r.success && r.insights).map(...)
DetailedData(results) ==
    LET kept == SelectSeq(results, LAMBDA r : r.success /\ ~IsFalsy(r.insights))
    IN  [k \in 1..Len(kept) |->
            [documentId |-> kept[k].document_id, insights |-> kept[k].insights,
             metadata |-> kept[k].document_metadata]]

\* detailedData.flatMap(d => d.insights.bucket_breakdown || [])
AllBreakdowns(detailed) ==
    Flatten([k \in 1..Len(detailed) |-> BreakdownsOf(detailed[k].insights)])

\* the load in flight at position k taken out of loads
RemoveAt(q, k) == SubSeq(q, 1, k - 1) \o SubSeq(q, k + 1, Len(q))

\* the call a load awaits has answered
Answered(load, ok, response) ==
    Append(load.calls, [api |-> load.pc, ok |-> ok, response |-> response])

pageState == <<rows, loading, bucketSegments, chartTitle, detailedInsights, aggregatedMetrics>>
coreVars == <<riskVars, txnVars, segVars, aggVars>>


InitInsightsPage ==
    /\ PageIdle
    /\ RiskIdle
    /\ TxnIdle
    /\ SegIdle
    /\ AggIdle
    /\ ViewIdle
    /\ RestIdle

\* the selectedIds prop changes and the effect runs load() up to its first await
ChangeSelection ==
    \E sel \in Selections :
        /\ sel # selectedIds
        /\ changes < MaxSelections
        /\ selectedIds' = sel
        /\ changes' = changes + 1
        /\ IF Len(sel) = 0
           THEN /\ rows' = <<>>
                /\ completed' = NoLoad
                /\ UNCHANGED <<loading, loads>>
           ELSE /\ loading' = TRUE
                /\ loads' = Append(loads,
                       [sel |-> sel, calls |-> <<>>, e |-> Undefined,
                        pc |-> IF Len(sel) > 1 THEN "getInsightsBulk"
                               ELSE "getDocumentInsights"])
                /\ UNCHANGED <<rows, completed>>
        /\ UNCHANGED <<bucketSegments, chartTitle, detailedInsights, aggregatedMetrics,
                       unhandled, coreVars, viewVars, restVars>>

\* what a call of load() that ended leaves in completed
Ended(load, ok, response, escaped, newRows) ==
    [sel |-> load.sel, calls |-> Answered(load, ok, response), escaped |-> escaped,
     rows |-> newRows]

\* getInsightsBulk resolves: the multi-document branch runs to its end
BulkResolve ==
    \E k \in 1..Len(loads) :
        /\ loads[k].pc = "getInsightsBulk"
        /\ \E results \in BulkResponses(loads[k].sel) :
               LET detailedData == DetailedData(results)
                   aggregated == AggregateMetrics(
                       [i \in 1..Len(detailedData) |-> detailedData[i].insights])
               IN  /\ rows' = [i \in 1..Len(results) |-> BulkRow(results[i])]
                   /\ detailedInsights' = detailedData
                   /\ aggregatedMetrics' = aggregated
                   /\ bucketSegments' = BuildSegmentsFromBreakdowns(AllBreakdowns(detailedData))
                   /\ chartTitle' = "Risk Category Mix (Aggregated)"
                   /\ completed' = Ended(loads[k], TRUE, results, FALSE, rows')
        /\ loading' = FALSE
        /\ loads' = RemoveAt(loads, k)
        /\ UNCHANGED <<selectedIds, unhandled, changes, coreVars, viewVars, restVars>>

\* getInsightsBulk rejects: finally runs and the error leaves load(), whose
\* promise nobody awaits
BulkReject ==
    \E k \in 1..Len(loads) :
        /\ loads[k].pc = "getInsightsBulk"
        /\ \E e \in ApiErrors :
               completed' = Ended(loads[k], FALSE, e, TRUE, <<>>)
        /\ loading' = FALSE
        /\ unhandled' = unhandled + 1
        /\ loads' = RemoveAt(loads, k)
        /\ UNCHANGED <<selectedIds, rows, bucketSegments, chartTitle, detailedInsights,
                       aggregatedMetrics, changes, coreVars, viewVars, restVars>>

\* getDocumentInsights resolves: the single-document branch runs to its end
InsightsResolve ==
    \E k \in 1..Len(loads) :
        /\ loads[k].pc = "getDocumentInsights"
        /\ LET id == loads[k].sel[1]
           IN  \E data \in InsightsResponses(id) :
                   /\ rows' = <<InsightsRow(id, data)>>
                   /\ detailedInsights' = <<[documentId |-> id, insights |-> data.insights,
                                             metadata |-> data.document_metadata]>>
                   /\ aggregatedMetrics' = data.insights
                   /\ bucketSegments' = BuildSegmentsFromBreakdowns(BreakdownsOf(data.insights))
                   /\ chartTitle' = "Risk Category Mix"
                   /\ completed' = Ended(loads[k], TRUE, data, FALSE, rows')
        /\ loading' = FALSE
        /\ loads' = RemoveAt(loads, k)
        /\ UNCHANGED <<selectedIds, unhandled, changes, coreVars, viewVars, restVars>>

\* getDocumentInsights rejects: catch (e) calls getDocumentTransactions
InsightsReject ==
    \E k \in 1..Len(loads) :
        /\ loads[k].pc = "getDocumentInsights"
        /\ \E e \in ApiErrors :
               loads' = [loads EXCEPT ![k].pc = "getDocumentTransactions",
                                      ![k].e = e,
                                      ![k].calls = Answered(loads[k], FALSE, e)]
        /\ UNCHANGED <<selectedIds, pageState, unhandled, completed, changes, coreVars, viewVars, restVars>>

\* getDocumentTransactions resolves: the row is derived from the transactions
TransactionsResolve ==
    \E k \in 1..Len(loads) :
        /\ loads[k].pc = "getDocumentTransactions"
        /\ \E tx \in TransactionsResponses :
               /\ rows' = <<FallbackRow(loads[k].sel[1], tx)>>
               /\ completed' = Ended(loads[k], TRUE, tx, FALSE, rows')
        /\ bucketSegments' = <<>>
        /\ chartTitle' = ""
        /\ loading' = FALSE
        /\ loads' = RemoveAt(loads, k)
        /\ UNCHANGED <<selectedIds, detailedInsights, aggregatedMetrics, unhandled, changes,
                       coreVars, viewVars, restVars>>

\* getDocumentTransactions rejects: catch (e2) sets the ERROR row
TransactionsReject ==
    \E k \in 1..Len(loads) :
        /\ loads[k].pc = "getDocumentTransactions"
        /\ \E e2 \in ApiErrors :
               /\ rows' = <<ErrorRow(loads[k].sel[1], loads[k].e)>>
               /\ completed' = Ended(loads[k], FALSE, e2, FALSE, rows')
        /\ bucketSegments' = <<>>
        /\ chartTitle' = ""
        /\ loading' = FALSE
        /\ loads' = RemoveAt(loads, k)
        /\ UNCHANGED <<selectedIds, detailedInsights, aggregatedMetrics, unhandled, changes,
                       coreVars, viewVars, restVars>>

NextInsightsPage ==
    \/ ChangeSelection
    \/ BulkResolve
    \/ BulkReject
    \/ InsightsResolve
    \/ InsightsReject
    \/ TransactionsResolve
    \/ TransactionsReject

SpecInsightsPage == InitInsightsPage /\ [][NextInsightsPage]_vars

---------------------------------------------------------------------------
(* Properties of the load of SelectedInsightsPage.                         *)

\* a transaction counts as a credit by its transaction_type, by the sign of its
\* amount when it has none
IsCreditTxn(t) ==
    IF IsNullish(t.transaction_type) THEN FieldValue(t.transaction_amount) >= 0
    ELSE t.transaction_type = Str("credit")

\* the sum of the magnitudes of the credits (credit = TRUE) or of the debits
MagnitudeSum(txs, credit) ==
    SumSeq([i \in 1..Len(txs) |->
               IF IsCreditTxn(txs[i]) = credit
               THEN AbsInt(FieldValue(txs[i].transaction_amount)) ELSE 0])

\* the load that ended last was for one document
SingleLoadEnded == Len(completed.sel) = 1

C19_NoFailureEscapes ==
    /\ unhandled = 0
    /\ completed.sel # <<>> =>
           /\ ~completed.escaped
           /\ Len(completed.rows) = Len(completed.sel)

---------------------------------------------------------------------------
(* The document insights view (DocumentInsights): it fetches the insights  *)
(* of one document and renders them.                                       *)

MaxBills == 3
MaxRenders == 2

\* the metrics of a response, with the monthly income and the recurring bills b
ViewMetrics(income, b) ==
    [t |-> "object", monthly_income |-> income, net_cash_flow |-> Num(1500),
     dscr_existing |-> JsNull, red_flags |-> Undefined, liquidity |-> Undefined,
     recurring_bills |-> b, bucket_breakdown |-> Undefined]

\* the monthly incomes of the responses
ViewIncomes == {Undefined, Num(0), Num(-1000), Num(6000), Str("1200")}

\* what getDocumentInsights resolves with for the view
ViewResponses ==
    {[t |-> "object", insights |-> m, document_metadata |-> Undefined] :
        m \in {JsNull}
                 \cup {ViewMetrics(i, Undefined) : i \in ViewIncomes}
                 \cup {ViewMetrics(Num(6000), Arr(q)) :
                          q \in SeqsUpTo({RentBill, GymBill, LoanBill}, MaxBills)}}

\* the comparator (a, b) => parseFloat(b.avg_amount || 0) - parseFloat(a.avg_amount || 0)
\* is negative: a is sorted before b
BillBefore(a, b) ==
    Lt(ParseFloat(OrElse(b.avg_amount, Num(0))), ParseFloat(OrElse(a.avg_amount, Num(0))))

RECURSIVE InsertBill(_, _)
InsertBill(x, sorted) ==
    IF sorted = <<>> THEN <<x>>
    ELSE IF BillBefore(x, Head(sorted)) THEN <<x>> \o sorted
    ELSE <<Head(sorted)>> \o InsertBill(x, Tail(sorted))

RECURSIVE SortBills(_)
\* bills.sort(comparator): the array itself is put in order, and returned
SortBills(bills) ==
    IF bills = <<>> THEN <<>>
    ELSE InsertBill(bills[Len(bills)], SortBills(SubSeq(bills, 1, Len(bills) - 1)))

\* .slice(0, 8)
FirstEight(q) == SubSeq(q, 1, IF Len(q) < 8 THEN Len(q) ELSE 8)

\* metrics.recurring_bills || []
BillsOf(metrics) ==
    IF IsFalsy(metrics.recurring_bills) THEN <<>> ELSE metrics.recurring_bills.items

\* cashFlowMargin of getLoanRecommendation: income > 0 ? (cashFlow / income) * 100 : 0
RecommendationMargin(m) ==
    LET income == ParseFloat(OrElse(m.monthly_income, Num(0)))
        cashFlow == ParseFloat(OrElse(m.net_cash_flow, Num(0)))
    IN  IF Lt(Num(0), income) THEN Pct(cashFlow, income) ELSE Num(0)

\* (parseFloat(metrics.net_cash_flow || 0) / parseFloat(metrics.monthly_income || 1)) * 100,
\* the margin of the Net Cash Flow caption and of Business Insights
ShownMargin(m) ==
    Pct(ParseFloat(OrElse(m.net_cash_flow, Num(0))), ParseFloat(OrElse(m.monthly_income, Num(1))))

InitView ==
    /\ ViewIdle
    /\ RestIdle
    /\ RiskIdle
    /\ TxnIdle
    /\ SegIdle
    /\ AggIdle
    /\ PageIdle

\* getDocumentInsights resolves: setInsights(response), setLoading(false)
InsightsArrive ==
    /\ viewLoading
    /\ \E response \in ViewResponses :
           /\ documentInsights' = response
           /\ received' = response
    /\ viewLoading' = FALSE
    /\ UNCHANGED <<viewError, shown, renders, coreVars, pageVars, restVars>>

\* getDocumentInsights rejects: setError(err.message), setLoading(false)
InsightsFail ==
    /\ viewLoading
    /\ \E e \in ApiErrors : viewError' = e.message
    /\ viewLoading' = FALSE
    /\ UNCHANGED <<documentInsights, received, shown, renders, coreVars, pageVars, restVars>>

\* the component renders: the spinner, the error, 'No Analysis Available', or
\* the cards of the metrics, of which Recurring Bills sorts the bills
RenderView ==
    /\ renders < MaxRenders
    /\ renders' = renders + 1
    /\ IF viewLoading THEN shown' = [card |-> "loading"] /\ UNCHANGED documentInsights
       ELSE IF ~IsFalsy(viewError)
            THEN shown' = [card |-> "error"] /\ UNCHANGED documentInsights
       ELSE IF IsFalsy(documentInsights) \/ IsFalsy(documentInsights.insights)
            THEN shown' = [card |-> "none"] /\ UNCHANGED documentInsights
       ELSE LET metrics == documentInsights.insights
                bills == BillsOf(metrics)
            IN  IF Len(bills) = 0
                THEN /\ shown' = [card |-> "metrics",
                                  recommendation |-> GetLoanRecommendation(metrics),
                                  captionMargin |-> ShownMargin(metrics),
                                  healthMargin |-> ShownMargin(metrics),
                                  sortedBills |-> <<>>]
                     /\ UNCHANGED documentInsights
                ELSE /\ shown' = [card |-> "metrics",
                                  recommendation |-> GetLoanRecommendation(metrics),
                                  captionMargin |-> ShownMargin(metrics),
                                  healthMargin |-> ShownMargin(metrics),
                                  sortedBills |-> FirstEight(SortBills(bills))]
                     /\ documentInsights' =
                            [documentInsights EXCEPT
                                !.insights.recurring_bills = Arr(SortBills(bills))]
    /\ UNCHANGED <<viewLoading, viewError, received, coreVars, pageVars, restVars>>

NextView == InsightsArrive \/ InsightsFail \/ RenderView

SpecView == InitView /\ [][NextView]_vars

---------------------------------------------------------------------------
(* Properties of the document insights view.                               *)

\* C20: what the backend sent is never modified: after any number of renders
\* the insights held by the view have the contents, in the order, they were
\* received with.
C20_InputsNeverModified ==
    received # NotReceived => documentInsights = received

---------------------------------------------------------------------------
(* Aggregation and the order of its input.                                 *)

\* the sequences with the elements of q in every order
Reorderings(q) ==
    {[i \in 1..Len(q) |-> q[f[i]]] : f \in Permutations(1..Len(q))}

\* C21: the segment list does not depend on the order of the input: every
\* reordering of the breakdowns gives the same buckets with the same
\* percentages in the same order.
C21_SegmentsIndependentOfOrder ==
    SegmentsBuilt =>
        \A p \in Reorderings(breakdowns) :
            BuildSegmentsFromBreakdowns(p) = segments.list

---------------------------------------------------------------------------
(* The normalizers against each other.                                     *)

\* C22: the normalizers resolve type, amount and signedAmount alike: for every
\* raw transaction normalizeTransaction of the page and of the dialog (where
\* they return), normalize of the table and the fallback derivation of the
\* insights page give the same type and amount, and the three normalizers the
\* same signedAmount.
C22_NormalizersAgree ==
    NormalizerReturned =>
        LET onPage == NormalizeTransaction(txn, "doc1")
            inDialog == NormalizeTransactionDialog(txn, "doc1")
            inTable == Normalize(txn)
        IN  /\ FallbackType(txn) = inTable.type
            /\ MathAbs(RawAmount(txn)) = inTable.amount
            /\ \A n \in {onPage, inDialog} :
                   n.st = "returned" =>
                       /\ n.type = inTable.type
                       /\ n.amount = inTable.amount
                       /\ n.signedAmount = inTable.signedAmount

---------------------------------------------------------------------------
(* The Transaction Categories card.                                        *)

CardBuilt == cardSegments # NotBuilt /\ cardSegments.st = "returned"

\* C23: the card, like buildSegmentsFromBreakdowns, makes no segment when the
\* bucket amounts sum to 0 or less, so that every percentage it computes is a
\* quotient by a positive total.
C23_CardGuardsItsDenominator ==
    CardBuilt =>
        LET total == SumOfBuckets(breakdowns, BucketNames(breakdowns), FALSE)
            list == cardSegments.list
        IN  /\ total <= 0 => list = <<>>
            /\ \A i \in 1..Len(list) : list[i].pct.t = "ratio" /\ list[i].pct.den > 0

---------------------------------------------------------------------------
(* The margins of the document insights view.                              *)

\* the quotients p and q are the same number
SameNumber(p, q) ==
    LET pn == IF p.t = "number" THEN p.n ELSE p.num
        pd == IF p.t = "number" THEN 1 ELSE p.den
        qn == IF q.t = "number" THEN q.n ELSE q.num
        qd == IF q.t = "number" THEN 1 ELSE q.den
    IN  /\ p.t \in {"number", "ratio"}
        /\ q.t \in {"number", "ratio"}
        /\ pn * qd = qn * pd

MetricsShown == shown # NotRendered /\ shown.card = "metrics"

\* C24: the margin of the Net Cash Flow caption and the margin of Business
\* Insights equal the margin of the loan recommendation: net cash flow /
\* monthly income * 100 for a positive income, 0 for an income that is 0,
\* missing or negative.
C24_ShownMarginIsRecommendationMargin ==
    MetricsShown =>
        /\ SameNumber(shown.captionMargin, RecommendationMargin(received.insights))
        /\ SameNumber(shown.healthMargin, RecommendationMargin(received.insights))

---------------------------------------------------------------------------
(* The priority order of the loan recommendation.                          *)

\* the count at a field of a flags object, 0 when the object or the field is missing
CountAt(flags, field) ==
    IF flags = Undefined THEN 0
    ELSE IF flags[field] = Undefined THEN 0 ELSE flags[field].n

CriticalRedFlag(m) ==
    \/ CountAt(m.red_flags, "gambling_crypto_hits") > 0
    \/ CountAt(m.red_flags, "chargebacks_count") > 3
    \/ CountAt(m.liquidity, "nsf_count") > 5

LowDscr(m) == m.dscr_existing \notin {JsNull, Undefined} /\ m.dscr_existing.n < 125

StrongProfile(m) ==
    /\ IsNumeric(m)
    /\ IncomeOf(m).n > 10000
    /\ 100 * CashFlowOf(m).n > 25 * IncomeOf(m).n

RecommendationRan == recommendation.st # "idle"

---------------------------------------------------------------------------
(* The insights page after a sequence of selection changes.                *)

NoLoadInFlight == loads = <<>>
SelectedDocs == {selectedIds[i] : i \in 1..Len(selectedIds)}

\* C26: once no load is in flight the rows of the page are those of the most
\* recent selection: no rows for an empty selection, otherwise the rows that the
\* load of the current selection produced, never those of an earlier selection
\* whose response arrived late.  (A load whose failure left load() produced no
\* rows; that case is C19.)
C26_RowsOfLatestSelection ==
    NoLoadInFlight =>
        IF selectedIds = <<>> THEN rows = <<>>
        ELSE /\ completed.sel = selectedIds
             /\ ~completed.escaped => rows = completed.rows

\* C27: once the load of the current selection has completed, detailedInsights,
\* aggregatedMetrics and bucketSegments come from the selected documents only:
\* nothing is left for an empty selection or after the transaction fallback or
\* the ERROR row, and for one selected document aggregatedMetrics has the fields
\* of aggregateMetrics applied to that document's insights.
C27_DerivedFromCurrentSelection ==
    (NoLoadInFlight /\ completed.sel = selectedIds /\ ~completed.escaped) =>
        /\ \A i \in 1..Len(detailedInsights) :
               detailedInsights[i].documentId \in SelectedDocs
        /\ selectedIds = <<>> =>
               /\ detailedInsights = <<>>
               /\ aggregatedMetrics = JsNull
               /\ bucketSegments = <<>>
        /\ (SingleLoadEnded /\ ~completed.calls[1].ok) =>
               /\ detailedInsights = <<>>
               /\ aggregatedMetrics = JsNull
               /\ bucketSegments = <<>>
        /\ (SingleLoadEnded /\ completed.calls[1].ok
                /\ IsObject(completed.calls[1].response.insights)) =>
               DOMAIN aggregatedMetrics =
                   DOMAIN AggregateMetrics(<<completed.calls[1].response.insights>>)

\* C28: loading is true exactly while a fetch for the selection is in flight,
\* under every interleaving of selection changes and answers.
C28_LoadingWhileInFlight == loading <=> ~NoLoadInFlight

---------------------------------------------------------------------------
(* The preview cache of DocumentList: a Map in memory in front of          *)
(* localStorage items that carry the time they were written.  Time is      *)
(* counted in hours (the source counts milliseconds and multiplies the     *)
(* expiry by 60 * 60 * 1000), and the clock advances half a day at a time. *)

CACHE_EXPIRY_HOURS == 24
MaxTicks == 3

\* a preview whose item stays under 1 MB and one whose item does not
SmallPreview == Str("data:application/pdf;base64,small")
LargePreview == Str("data:application/pdf;base64,large")
Previews == {SmallPreview, LargePreview}

\* JSON.stringify(cacheData) and a string that is no JSON
Stringify(value) == [t |-> "json", value |-> value]
Garbage == [t |-> "text", s |-> "not json"]
\* JSON.parse(item) throws unless the item is JSON; otherwise it gives the value back
ParseThrows(item) == item.t # "json"
JsonParse(item) == item.value

\* { data: dataUrl, timestamp: Date.now() }
CacheData(dataUrl, t) == [data |-> dataUrl, timestamp |-> Num(t)]
\* new Blob([JSON.stringify(cacheData)]).size < 1024 * 1024
FitsStorage(cacheData) == cacheData.data # LargePreview

\* a >= b on numbers; false as soon as one side is NaN
Gte(a, b) == a.t = "number" /\ b.t = "number" /\ a.n >= b.n

\* timestamp + (CACHE_EXPIRY_HOURS * 60 * 60 * 1000)
ExpiryTime(cached) == Add(cached.timestamp, Num(CACHE_EXPIRY_HOURS))

\* key.startsWith(CACHE_KEY_PREFIX)
StartsWithPrefix(key) == key.prefix = CACHE_KEY_PREFIX

\* cleanPreviewCache(): localStorage afterwards
CleanPreviewCache(store, t) ==
    [key \in DOMAIN store |->
        IF store[key] # NoItem /\ StartsWithPrefix(key)
               /\ (ParseThrows(store[key]) \/ Gte(Num(t), ExpiryTime(JsonParse(store[key]))))
        THEN NoItem ELSE store[key]]

GotPreview(result, mem, store) ==
    [result |-> result, previewCache |-> mem, localStorage |-> store]

\* getCachedPreview(documentId): what it returns and what it leaves in the Map
\* and in localStorage
GetCachedPreview(mem, store, documentId, t) ==
    LET cacheKey == CacheKey(documentId)
        cached == store[cacheKey]
    IN  IF mem[documentId] # NoPreview THEN GotPreview(mem[documentId], mem, store)
        ELSE IF cached = NoItem \/ ParseThrows(cached) THEN GotPreview(JsNull, mem, store)
        ELSE IF Lt(Num(t), ExpiryTime(JsonParse(cached)))
             THEN GotPreview(JsonParse(cached).data,
                             [mem EXCEPT ![documentId] = JsonParse(cached).data], store)
        ELSE GotPreview(JsNull, mem, [store EXCEPT ![cacheKey] = NoItem])

\* what cachePreview(documentId, dataUrl) leaves in localStorage; full tells
\* whether setItem throws for want of space
StoreAfterCaching(store, documentId, dataUrl, t, full) ==
    IF ~FitsStorage(CacheData(dataUrl, t)) THEN store
    ELSE IF full THEN CleanPreviewCache(store, t)
    ELSE [store EXCEPT ![CacheKey(documentId)] = Stringify(CacheData(dataUrl, t))]

\* localStorage when the program starts: items of an earlier session
StoredBefore == {NoItem, Garbage}

InitCache ==
    /\ previewCache = [id \in PreviewIds |-> NoPreview]
    /\ localStorage \in {store \in [StorageKeys -> StoredBefore] : store[FlagKey] = NoItem}
    /\ now = 0
    /\ lastGet = NoGet
    /\ cachedAt = [id \in PreviewIds |-> <<>>]
    /\ ListIdle
    /\ RiskIdle
    /\ TxnIdle
    /\ SegIdle
    /\ AggIdle
    /\ PageIdle
    /\ ViewIdle

\* the calls of cachePreview for an id with the one for dataUrl at time t put
\* in place of an earlier one for the same preview
Recorded(calls, dataUrl, t) ==
    Append(SelectSeq(calls, LAMBDA c : c.data # dataUrl), CacheData(dataUrl, t))

\* cachePreview(documentId, dataUrl)
CallCachePreview ==
    \E documentId \in PreviewIds, dataUrl \in Previews \cup {JsNull}, full \in BOOLEAN :
        /\ IF IsFalsy(dataUrl)
           THEN UNCHANGED <<previewCache, localStorage, cachedAt>>
           ELSE /\ previewCache' = [previewCache EXCEPT ![documentId] = dataUrl]
                /\ localStorage' = StoreAfterCaching(localStorage, documentId, dataUrl, now, full)
                /\ cachedAt' = [cachedAt EXCEPT ![documentId] = Recorded(@, dataUrl, now)]
        /\ UNCHANGED <<now, lastGet, listVars, coreVars, pageVars, viewVars>>

\* getCachedPreview(documentId)
CallGetCachedPreview ==
    \E documentId \in PreviewIds :
        LET got == GetCachedPreview(previewCache, localStorage, documentId, now)
        IN  /\ previewCache' = got.previewCache
            /\ localStorage' = got.localStorage
            /\ lastGet' = [id |-> documentId, result |-> got.result]
            /\ UNCHANGED <<now, cachedAt, listVars, coreVars, pageVars, viewVars>>

\* cleanPreviewCache()
CallCleanPreviewCache ==
    /\ localStorage' = CleanPreviewCache(localStorage, now)
    /\ UNCHANGED <<previewCache, now, lastGet, cachedAt, listVars, coreVars, pageVars, viewVars>>

\* half a day passes
Tick ==
    /\ now < 12 * MaxTicks
    /\ now' = now + 12
    /\ UNCHANGED <<previewCache, localStorage, lastGet, cachedAt, listVars, coreVars,
                   pageVars, viewVars>>

\* the page is loaded again: the module starts with an empty Map
ReloadPage ==
    /\ previewCache' = [id \in PreviewIds |-> NoPreview]
    /\ UNCHANGED <<localStorage, now, lastGet, cachedAt, listVars, coreVars, pageVars, viewVars>>

NextCache ==
    \/ CallCachePreview
    \/ CallGetCachedPreview
    \/ CallCleanPreviewCache
    \/ Tick
    \/ ReloadPage

SpecCache == InitCache /\ [][NextCache]_vars

---------------------------------------------------------------------------
(* Properties of the preview cache.                                        *)

\* an item that cannot be read as a preview with its time
Corrupted(item) == ParseThrows(item)

\* an item whose 24 hours have passed at time t
Expired(item, t) ==
    ~Corrupted(item) /\ t >= JsonParse(item).timestamp.n + CACHE_EXPIRY_HOURS

\* the preview was cached for the id less than 24 hours ago
CachedInTime(id, preview) ==
    \E k \in 1..Len(cachedAt[id]) :
        /\ cachedAt[id][k].data = preview
        /\ now < cachedAt[id][k].timestamp.n + CACHE_EXPIRY_HOURS

\* C29: at every time getCachedPreview(id) returns a preview only if that preview was cached
\* for the id less than 24 hours earlier, and null for an id whose previews
\* have expired or were never cached; cleanPreviewCache removes exactly the
\* stored previews that are expired or corrupted, with the same instant of
\* expiry (now >= timestamp + 24 h) as getCachedPreview.
C29_PreviewsExpireAfter24Hours ==
    /\ \A id \in PreviewIds :
           LET got == GetCachedPreview(previewCache, localStorage, id, now)
           IN  got.result # JsNull => CachedInTime(id, got.result)
    /\ \A key \in StorageKeys :
           CleanPreviewCache(localStorage, now)[key] =
               IF StartsWithPrefix(key) /\ localStorage[key] # NoItem
                      /\ (Corrupted(localStorage[key]) \/ Expired(localStorage[key], now))
               THEN NoItem ELSE localStorage[key]

---------------------------------------------------------------------------
(* The selection of DocumentList.  App holds the selection and hands it to *)
(* the list as selectedIds with setSelectedDocumentIds as onSelectedChange; *)
(* the list keeps hasAutoSelected, which it reads from localStorage when   *)
(* it mounts.  Documents are numbered in the order of their upload.        *)

MaxDocuments == 2

\* the item 'true'
TrueText == [t |-> "text", s |-> "true"]

\* useState(() => localStorage.getItem('hasAutoSelectedDocuments') === 'true'),
\* with the item never read
InitialHasAutoSelectedNever(item) == FALSE

\* useState(() => localStorage.getItem('hasAutoSelectedDocuments') === 'true')
InitialHasAutoSelected(item) == item = TrueText

\* documents.map((d) => d.document_id) as a Set
IdsOf(docs) == {docs[k] : k \in 1..Len(docs)}

EffectDone(sel, has, flagged, autos) ==
    [selected |-> sel, has |-> has, flagged |-> flagged, autos |-> autos]

\* one run of the auto-select effect
AutoSelectEffect(docs, has, sel) ==
    LET parentHasSelection == sel # {}
    IN  IF Len(docs) > 0 /\ ~has /\ Cardinality(sel) = 0 /\ ~parentHasSelection
        THEN EffectDone(IdsOf(docs), TRUE, TRUE, 1)
        ELSE IF (parentHasSelection \/ Len(docs) > 0) /\ ~has
             THEN EffectDone(sel, TRUE, TRUE, 0)
        ELSE EffectDone(sel, has, FALSE, 0)

\* the effect runs after the render, and again after the render its own updates cause
Rendered(docs, has, sel) ==
    LET first == AutoSelectEffect(docs, has, sel)
        second == AutoSelectEffect(docs, first.has, first.selected)
    IN  EffectDone(second.selected, second.has, first.flagged \/ second.flagged,
                   first.autos + second.autos)

\* an event leaves docs, has and sel; the list renders and its effect runs
Commit(docs, has, sel, store, event) ==
    LET r == Rendered(docs, has, sel)
    IN  /\ documents' = docs
        /\ hasAutoSelected' = r.has
        /\ selectedDocumentIds' = r.selected
        /\ localStorage' = IF r.flagged THEN [store EXCEPT ![FlagKey] = TrueText] ELSE store
        /\ autoSelections' = autoSelections + r.autos
        /\ lastEvent' = event

cacheRest == <<previewCache, now, lastGet, cachedAt>>

InitList ==
    /\ documents = <<>>
    /\ hasAutoSelected = FALSE
    /\ mounted = FALSE
    /\ selectedDocumentIds = {}
    /\ serverDocuments \in {<<>>, <<1>>}
    /\ fetching = <<>>
    /\ uploading = FALSE
    /\ autoSelections = 0
    /\ lastEvent = "none"
    /\ previewCache = [id \in PreviewIds |-> NoPreview]
    /\ localStorage \in {store \in [StorageKeys -> {NoItem, TrueText}] :
                            \A id \in PreviewIds : store[CacheKey(id)] = NoItem}
    /\ now = 0
    /\ lastGet = NoGet
    /\ cachedAt = [id \in PreviewIds |-> <<>>]
    /\ RiskIdle
    /\ TxnIdle
    /\ SegIdle
    /\ AggIdle
    /\ PageIdle
    /\ ViewIdle

\* the route shows DocumentList: useState, cleanPreviewCache(), fetchDocuments()
Mount ==
    /\ ~mounted
    /\ mounted' = TRUE
    /\ fetching' = <<"mount">>
    /\ Commit(<<>>, InitialHasAutoSelected(localStorage[FlagKey]), selectedDocumentIds,
              CleanPreviewCache(localStorage, now), "mount")
    /\ UNCHANGED <<serverDocuments, uploading, cacheRest, coreVars, pageVars, viewVars>>

\* the user goes to another tab; an upload under way may still reach the server
Unmount ==
    /\ mounted
    /\ mounted' = FALSE
    /\ documents' = <<>>
    /\ hasAutoSelected' = FALSE
    /\ fetching' = <<>>
    /\ uploading' = FALSE
    /\ serverDocuments' \in
           {serverDocuments} \cup
               (IF uploading THEN {Append(serverDocuments, Len(serverDocuments) + 1)} ELSE {})
    /\ lastEvent' = "unmount"
    /\ UNCHANGED <<selectedDocumentIds, autoSelections, localStorage, cacheRest, coreVars,
                   pageVars, viewVars>>

\* getDocuments resolves: setDocuments(response.documents || [])
FetchResolve ==
    \E k \in 1..Len(fetching) :
        /\ mounted
        /\ fetching' = RemoveAt(fetching, k)
        /\ uploading' = (uploading /\ fetching[k] # "upload")
        /\ Commit(serverDocuments, hasAutoSelected, selectedDocumentIds, localStorage,
                  "fetchDocuments")
        /\ UNCHANGED <<mounted, serverDocuments, cacheRest, coreVars, pageVars, viewVars>>

\* getDocuments rejects: setError(err.message)
FetchReject ==
    \E k \in 1..Len(fetching) :
        /\ mounted
        /\ fetching' = RemoveAt(fetching, k)
        /\ uploading' = (uploading /\ fetching[k] # "upload")
        /\ lastEvent' = "fetchDocuments failed"
        /\ UNCHANGED <<documents, hasAutoSelected, mounted, selectedDocumentIds,
                       serverDocuments, autoSelections, cacheVars, coreVars, pageVars, viewVars>>

\* handleFileSelect up to await ApiService.uploadDocument(file)
HandleFileSelect ==
    /\ mounted
    /\ ~uploading
    /\ Len(serverDocuments) < MaxDocuments
    /\ uploading' = TRUE
    /\ lastEvent' = "handleFileSelect"
    /\ UNCHANGED <<documents, hasAutoSelected, mounted, selectedDocumentIds, serverDocuments,
                   fetching, autoSelections, cacheVars, coreVars, pageVars, viewVars>>

\* uploadDocument resolves: the server has the document, fetchDocuments() is called
UploadResolve ==
    /\ mounted
    /\ uploading
    /\ "upload" \notin IdsOf(fetching)
    /\ serverDocuments' = Append(serverDocuments, Len(serverDocuments) + 1)
    /\ fetching' = Append(fetching, "upload")
    /\ lastEvent' = "uploadDocument"
    /\ UNCHANGED <<documents, hasAutoSelected, mounted, selectedDocumentIds, uploading,
                   autoSelections, cacheVars, coreVars, pageVars, viewVars>>

\* uploadDocument rejects: setError, setUploading(false)
UploadReject ==
    /\ mounted
    /\ uploading
    /\ "upload" \notin IdsOf(fetching)
    /\ uploading' = FALSE
    /\ lastEvent' = "uploadDocument failed"
    /\ UNCHANGED <<documents, hasAutoSelected, mounted, selectedDocumentIds, serverDocuments,
                   fetching, autoSelections, cacheVars, coreVars, pageVars, viewVars>>

\* toggleSelect(documentId)
ToggleSelect ==
    \E documentId \in IdsOf(documents) :
        LET next == IF documentId \in selectedDocumentIds
                    THEN selectedDocumentIds \ {documentId}
                    ELSE selectedDocumentIds \cup {documentId}
        IN  /\ mounted
            /\ Commit(documents, hasAutoSelected, next, localStorage, "toggleSelect")
            /\ UNCHANGED <<mounted, serverDocuments, fetching, uploading, cacheRest, coreVars,
                           pageVars, viewVars>>

\* selectAll()
SelectAll ==
    /\ mounted
    /\ Commit(documents, hasAutoSelected, IdsOf(documents), localStorage, "selectAll")
    /\ UNCHANGED <<mounted, serverDocuments, fetching, uploading, cacheRest, coreVars,
                   pageVars, viewVars>>

\* clearSelection()
ClearSelection ==
    /\ mounted
    /\ Commit(documents, hasAutoSelected, {}, localStorage, "clearSelection")
    /\ UNCHANGED <<mounted, serverDocuments, fetching, uploading, cacheRest, coreVars,
                   pageVars, viewVars>>

NextList ==
    \/ Mount
    \/ Unmount
    \/ FetchResolve
    \/ FetchReject
    \/ HandleFileSelect
    \/ UploadResolve
    \/ UploadReject
    \/ ToggleSelect
    \/ SelectAll
    \/ ClearSelection

SpecList == InitList /\ [][NextList]_vars

---------------------------------------------------------------------------
(* Properties of the selection of DocumentList.                            *)

FlagSet == localStorage[FlagKey] = TrueText
ByTheUser == {"toggleSelect", "selectAll", "clearSelection"}

\* C30: the effect selects all documents at most once, and only when documents
\* are loaded, hasAutoSelected was not set and nothing was selected; once
\* hasAutoSelected is set, no event (Clear, toggling, an upload with its
\* re-fetch, leaving the tab and coming back) makes the selection change by
\* itself: every change of the selection that is not that one selection is the
\* work of toggleSelect, Select All or Clear.
C30_AutoSelectionAtMostOnce ==
    [][/\ autoSelections' <= 1
       /\ autoSelections' # autoSelections =>
              /\ ~FlagSet
              /\ selectedDocumentIds = {}
              /\ documents' # <<>>
              /\ selectedDocumentIds' = IdsOf(documents')
              /\ hasAutoSelected'
       /\ (selectedDocumentIds' # selectedDocumentIds /\ autoSelections' = autoSelections) =>
              lastEvent' \in ByTheUser
       /\ FlagSet =>
              (selectedDocumentIds' # selectedDocumentIds => lastEvent' \in ByTheUser)]_vars

\* C30 witness: after the one automatic selection the user cleared the
\* selection, left the tab and came back, and the documents were fetched again
\* without anything being selected
C30_Witness ==
    /\ autoSelections = 1
    /\ mounted
    /\ documents # <<>>
    /\ selectedDocumentIds = {}
    /\ hasAutoSelected
    /\ lastEvent = "fetchDocuments"

====
